---- MODULE Spec2Model ----
(***************************************************************************)
(* Room / relay-session coordination and chunked transfer of the           *)
(* transcrypt file-relay client (static/js/*.js), together with the relay  *)
(* server the client talks to.  The browser client is translated from its  *)
(* source; the relay server (room registry and per-room session state      *)
(* machine) is not part of the JavaScript sources and is written from      *)
(* sections 3, 4.1 and 4.3 of the specification.                           *)
(***************************************************************************)
EXTENDS Integers, Sequences, FiniteSets, TLC

\* ------------------------------------------------------------------ bounds
NumClients == 2        \* browser tabs taking part
NumCreators == 1       \* tabs 1..NumCreators are the ones whose user creates rooms
NumKeys == 2           \* size of the universe of secret keys
MaxRooms == 1          \* rooms created where the sender does not come back
MaxConns == 3          \* WebSocket connections ever opened in one behaviour
MaxCapacity == 1       \* create-room draws max_receivers from 0..MaxCapacity
MaxFileSize == 2       \* selectable files have 0..MaxFileSize bytes
MaxInbox == 3          \* events buffered per connection towards the browser
MaxReaders == 2        \* FileReader loops alive at once in one tab
MaxSends == 2          \* clicks on the send button per tab in one behaviour
MaxSelects == 2        \* file selections per tab in one behaviour
ChunkSize == 1         \* relay chunk size (64 KiB in the source), scaled
MaxPayload == 3        \* bytes of one payload given to the envelope
NumByteVals == 2       \* values a payload byte takes
NumAeadKeys == 2       \* symmetric keys the envelope draws from
NumIvs == 2            \* IVs / nonces the envelope draws from
TagLen == 1            \* bytes of an authentication tag (16 in the source), scaled
NumCodes == 2          \* connection codes a sender may draw, a receiver may type
SessionTicks == 2      \* polling periods until the expiry timer of a session is due
MaxSessions == 2       \* polling sessions started in one tab in one behaviour
MaxCandidates == 1     \* ICE candidates gathered in one tab
MaxOps == 2            \* setRemoteDescription calls in progress in one tab
BufferLimit == 1       \* bytes the data channel may hold before sendP2PData refuses
MaxP2PSends == 1       \* transfers one tab starts on the data channel
MaxP2PCalls == 2       \* sendFile calls of one tab in a session of several files

Clients == 1..NumClients
Creators == 1..NumCreators
Joiners == Clients \ Creators
Keys == 1..NumKeys
ConnIds == 1..MaxConns
FileSizes == 0..MaxFileSize

NoKey == 0             \* null secret key
NoConn == 0            \* null wsConnection
NoFile == -1           \* null selectedFile

\* ------------------------------------------------------------------ state
VARIABLES
    issued,      \* server: the secret keys create_room has ever returned
    rooms,       \* server: registry, key -> room record (or NoRoom)
    conns,       \* the WebSocket connections opened so far, id -> record
    inbox,       \* per connection: events queued for the browser (server -> client)
    outbox,      \* per connection: frames queued for the server (client -> server)
    client,      \* per browser tab: the module-level state of state.js /
                 \* websocket.js and the DOM state the handlers read back
    clicks,      \* per browser tab: the user's send clicks and file selections
                 \* so far, which MaxSends and MaxSelects bound
    lastStatus,  \* per browser tab: the last room_status dispatched to the tab
                 \* on its current connection (history variable)
    aead,        \* one payload on its way through the encryption envelope:
                 \* sealed by the sending side, carried, opened by the receiver
    p2p          \* the direct (WebRTC) transport: per browser tab the module
                 \* state of p2p.js, and the signaling records in localStorage

vars == <<issued, rooms, conns, inbox, outbox, client, clicks, lastStatus,
          aead, p2p>>

\* The variables of the relay session, which the envelope and the direct
\* transport leave alone.
relayVars == <<issued, rooms, conns, inbox, outbox, client, clicks, lastStatus>>

\* ------------------------------------------------------------------ files
\* A file is identified by its owner (the tab that selected it) and its size;
\* byte i of the file is the triple <<owner, size, i>>, so that loss,
\* duplication, reordering and mixing of files are all visible in the bytes.
FileName(c, size) == <<c, size>>

FileBytes(c, size) == [i \in 1..size |-> <<c, size, i>>]

Min(a, b) == IF a < b THEN a ELSE b

\* Blob.slice(start, end) on the bytes of a file: bytes start..end-1 (0-based),
\* clamped to the size.
Slice(bytes, start, end) ==
    LET hi == Min(end, Len(bytes))
    IN  IF start >= hi THEN <<>> ELSE SubSeq(bytes, start + 1, hi)

\* Math.ceil(size / chunkSize)
CeilDiv(size, chunkSize) == (size + chunkSize - 1) \div chunkSize

\* Math.round((k / total) * 100)
RoundPercent(k, total) == (200 * k + total) \div (2 * total)

\* ------------------------------------------------------------------ values
NoBlob == [null |-> TRUE, bytes |-> <<>>]

Blob(bytes) == [null |-> FALSE, bytes |-> bytes]

NoName == <<>>

\* encryptionMetadata: null, or the object of a transfer_progress message; a
\* missing (undefined) member is 0.
NoMeta ==
    [null |-> TRUE, method |-> "none", aes_key |-> 0, iv |-> 0, tag |-> 0,
     chacha_key |-> 0, nonce |-> 0]

\* The options of the encryptionMethod select
Methods == {"none", "aes-256-gcm", "chacha20-poly1305"}

\* encryption_metadata objects of a transfer_progress message
AesMeta(key, iv, tag) ==
    [NoMeta EXCEPT !.null = FALSE, !.method = "aes-256-gcm",
                   !.aes_key = key, !.iv = iv, !.tag = tag]

ChaChaMeta(key, nonce) ==
    [NoMeta EXCEPT !.null = FALSE, !.method = "chacha20-poly1305",
                   !.chacha_key = key, !.nonce = nonce]

\* What decryption makes of the bytes it is given
Decrypted(data) == [i \in 1..Len(data) |-> Append(data[i], "decrypted")]

Cards ==
    {"initialOptions", "joinRoomOptions", "roomCreatedDirect", "roomCreatedFace",
     "fileTransfer"}

RoomCreatedCards == {"roomCreatedDirect", "roomCreatedFace"}

\* State of a browser tab right after the page has loaded (state.js:3-11,
\* websocket.js:18-20 and the static DOM: only the initial card is shown, the
\* send button is disabled, the download button is hidden, the faceAuthRoomKey
\* element is empty).
InitClient ==
    [ currentSecretKey   |-> NoKey,
      faceAuthRoomKey    |-> NoKey,
      currentRole        |-> "null",
      selectedFile       |-> NoFile,
      receivedFileName   |-> NoName,
      receivedFileBlob   |-> NoBlob,
      encryptionMetadata |-> NoMeta,
      wsConnection       |-> NoConn,
      transferInProgress |-> FALSE,
      shown              |-> {"initialOptions"},
      sendBtnDisabled    |-> TRUE,
      downloadBtn        |-> FALSE,
      capacityTimers     |-> 0,
      readers            |-> <<>>,
      jobs               |-> <<>>,
      check              |-> [pending |-> FALSE] ]

NoStatus == [type |-> "none", senders |-> 0, receivers |-> 0, ready_to_transfer |-> FALSE]

\* A WebSocket: the tab that opened it, the key and role of its URL, the
\* browser's readyState, and the server's side of it: srv (pending, joined,
\* unknown = refused for its key, full = refused for capacity, done = left)
\* rejectedBy, the owner of the transfer in progress that made the server
\* reject this connection's last start_transfer (history), and completed: the
\* server has sent it transfer_complete since the last transfer_start
\* (history).
NoConnection ==
    [client |-> 0, key |-> NoKey, role |-> "null", readyState |-> "NONE",
     srv |-> "none", rejectedBy |-> NoConn, completed |-> FALSE]

\* ------------------------------------------------- relay server (from the spec)
\* ready_to_transfer computed from the counts alone
ReadyToTransferIgnoringTransfer(room) ==
    /\ Cardinality(room.senders) > 0
    /\ Cardinality(room.receivers) > 0

\* Section 4.3: ready_to_transfer = senders>0 && receivers>0 && no transfer in progress
ReadyToTransfer(room) ==
    /\ Cardinality(room.senders) > 0
    /\ Cardinality(room.receivers) > 0
    /\ ~room.transferring

\* room_status with the two counts exchanged
RoomStatusSwapped(room) ==
    [ type              |-> "room_status",
      senders           |-> Cardinality(room.receivers),
      receivers         |-> Cardinality(room.senders),
      ready_to_transfer |-> ReadyToTransfer(room) ]

\* Section 6: room_status (senders, receivers, ready_to_transfer)
RoomStatus(room) ==
    [ type              |-> "room_status",
      senders           |-> Cardinality(room.senders),
      receivers         |-> Cardinality(room.receivers),
      ready_to_transfer |-> ReadyToTransfer(room) ]

\* capacity check that admits one receiver too many
HasCapacityInclusive(room) ==
    \/ room.max_receivers = 0
    \/ Cardinality(room.receivers) <= room.max_receivers

\* Section 4.1: capacity check of join (0 means unlimited)
HasCapacity(room) ==
    \/ room.max_receivers = 0
    \/ Cardinality(room.receivers) < room.max_receivers

Members(room) == room.senders \cup room.receivers

NewRoom(n) ==
    [ exists        |-> TRUE,
      max_receivers |-> n,
      senders       |-> {},
      receivers     |-> {},
      transferring  |-> FALSE,
      owner         |-> NoConn,
      filename      |-> NoName,
      method        |-> "none" ]

NoRoom == [NewRoom(0) EXCEPT !.exists = FALSE]

\* The connections of `ids` that can still take an event from the server.
Live(ids) == {i \in ids : conns[i].readyState # "CLOSED"}

\* Append the events `msgs` to the inbox of every live connection in `ids`.
Deliver(inb, ids, msgs) ==
    [i \in ConnIds |-> IF i \in Live(ids) THEN inb[i] \o msgs ELSE inb[i]]

\* Flow control of the transport: the server blocks on a full socket buffer.
CanDeliver(ids, n) == \A i \in Live(ids) : Len(inbox[i]) + n <= MaxInbox

\* ------------------------------------------------------- browser client
\* wsConnection && wsConnection.readyState === WebSocket.OPEN
WsOpen(s, cn) ==
    /\ s.wsConnection # NoConn
    /\ cn[s.wsConnection].readyState = "OPEN"

\* websocket.js checkFileInputState, WebSocket branch (the P2P status element
\* never reads 'Connected' in a relay room).
checkFileInputState(s, cn) ==
    [s EXCEPT !.sendBtnDisabled =
        ~(s.selectedFile # NoFile /\ WsOpen(s, cn) /\ ~s.transferInProgress)]

\* websocket.js updateRoomStatus.  The handler writes data.senders and
\* data.receivers into the counter elements, which no handler reads back, and
\* does not read data.ready_to_transfer; what the message said is kept in
\* lastStatus.
updateRoomStatus(s, cn, data) ==
    IF s.currentRole = "sender" THEN checkFileInputState(s, cn) ELSE s

\* websocket.js handleTransferStart
handleTransferStart(s, data) ==
    IF s.currentRole = "receiver"
    THEN [s EXCEPT !.receivedFileBlob = NoBlob,
                   !.encryptionMetadata = NoMeta,
                   !.receivedFileName = data.filename]
    ELSE s

\* websocket.js updateTransferProgress
updateTransferProgress(s, data) ==
    IF s.currentRole = "receiver" /\ ~data.encryption_metadata.null
    THEN [s EXCEPT !.encryptionMetadata = data.encryption_metadata]
    ELSE s

\* encryption.js processEncryptedFile, up to its first await: the blob is
\* captured by arrayBuffer(); the rest runs in ProcessEncryptedFileStep.
processEncryptedFile(s) ==
    IF s.receivedFileBlob.null \/ s.encryptionMetadata.null
    THEN s
    ELSE [s EXCEPT !.jobs = Append(@, [stage |-> "read",
                                       fileData |-> s.receivedFileBlob.bytes])]

\* handleTransferComplete that offers the file only when no encryption
\* method was announced
handleTransferCompleteNoFallback(s, cn, data) ==
    LET s1 == [s EXCEPT !.transferInProgress = FALSE]
        s2 == IF s1.currentRole = "sender" THEN checkFileInputState(s1, cn) ELSE s1
        s3 == [s2 EXCEPT !.receivedFileName = data.filename]
        m  == s3.encryptionMetadata
    IN  IF s2.currentRole # "receiver" THEN s2
        ELSE IF ~m.null /\ m.method # "none"
        THEN IF \/ m.method = "aes-256-gcm" /\ m.aes_key # 0
                \/ m.method = "chacha20-poly1305" /\ m.chacha_key # 0
             THEN processEncryptedFile(s3)
             ELSE s3
        ELSE [s3 EXCEPT !.downloadBtn = TRUE]

\* handleTransferComplete that leaves the transfer flag as it is
handleTransferCompleteKeepsFlag(s, cn, data) ==
    LET s2 == IF s.currentRole = "sender" THEN checkFileInputState(s, cn) ELSE s
        s3 == [s2 EXCEPT !.receivedFileName = data.filename]
    IN  IF s2.currentRole # "receiver" THEN s2
        ELSE [s3 EXCEPT !.downloadBtn = TRUE]

\* websocket.js handleTransferComplete
handleTransferComplete(s, cn, data) ==
    LET s1 == [s EXCEPT !.transferInProgress = FALSE]
        s2 == IF s1.currentRole = "sender" THEN checkFileInputState(s1, cn) ELSE s1
        s3 == [s2 EXCEPT !.receivedFileName = data.filename]
        m  == s3.encryptionMetadata
    IN  IF s2.currentRole # "receiver" THEN s2
        ELSE IF ~m.null /\ m.method # "none"
        THEN IF \/ m.method = "aes-256-gcm" /\ m.aes_key # 0
                \/ m.method = "chacha20-poly1305" /\ m.chacha_key # 0
             THEN processEncryptedFile(s3)
             ELSE [s3 EXCEPT !.downloadBtn = TRUE]
        ELSE [s3 EXCEPT !.downloadBtn = TRUE]

\* handleErrorMessage without the capacity branch
handleErrorMessageNoRedirect(s, cn, data) ==
    LET s1 == [s EXCEPT !.transferInProgress = FALSE]
    IN  IF s1.currentRole = "sender" THEN checkFileInputState(s1, cn) ELSE s1

\* websocket.js handleErrorMessage: a 'maximum capacity' message arms the
\* one-second timer that CapacityTimeout runs.
handleErrorMessage(s, cn, data) ==
    LET s1 == [s EXCEPT !.transferInProgress = FALSE]
        s2 == IF s1.currentRole = "sender" THEN checkFileInputState(s1, cn) ELSE s1
    IN  IF data.message = "maximum capacity"
        THEN [s2 EXCEPT !.capacityTimers = @ + 1]
        ELSE s2

\* websocket.js handleWebSocketMessage
handleWebSocketMessage(s, cn, data) ==
    CASE data.type = "room_status"       -> updateRoomStatus(s, cn, data)
      [] data.type = "transfer_start"    -> handleTransferStart(s, data)
      [] data.type = "transfer_progress" -> updateTransferProgress(s, data)
      [] data.type = "transfer_complete" -> handleTransferComplete(s, cn, data)
      [] data.type = "error"             -> handleErrorMessage(s, cn, data)
      [] data.type = "binary"            ->
            IF s.currentRole = "receiver"
            THEN [s EXCEPT !.receivedFileBlob = Blob(data.data)]
            ELSE s
      [] OTHER                           -> s

\* ------------------------------------------------------ encryption envelope
\* AES-GCM and ChaCha20-Poly1305 are taken as ideal AEAD schemes.  Byte i of a
\* ciphertext is the plaintext byte locked under (method, key, iv, position):
\* the cipher is a stream cipher, so changing a ciphertext byte changes the
\* plaintext byte at that position and nothing else.  The tag is TagLen bytes
\* that name the method, key, iv and ciphertext they authenticate.
PlainBytes == 0..(NumByteVals - 1)
Payloads == UNION {[1..n -> PlainBytes] : n \in 0..MaxPayload}
AeadKeys == 1..NumAeadKeys
Ivs == 1..NumIvs
AeadMethods == {"aes-256-gcm", "chacha20-poly1305"}
Layouts == {"concatenated", "separate"}

SealByte(method, key, iv, i, b) == <<"enc", method, key, iv, i, b>>

AeadTag(method, key, iv, ct) ==
    [j \in 1..TagLen |-> <<"tag", method, key, iv, ct, j, "mac">>]

\* The sending side's envelope (section 4.4): ciphertext and tag.
AeadSeal(method, key, iv, plain) ==
    LET ct == [i \in 1..Len(plain) |-> SealByte(method, key, iv, i, plain[i])]
    IN  [ct |-> ct, tag |-> AeadTag(method, key, iv, ct)]

\* SHA-256 of a byte sequence, as an ideal hash.
Sha256(bytes) == <<"sha256", bytes>>

DecryptFailed == [ok |-> FALSE, data |-> <<>>]

\* An AEAD open that releases the plaintext without verifying the tag.
AeadOpenUnverified(method, key, iv, data) ==
    IF Len(data) < TagLen THEN DecryptFailed
    ELSE [ok |-> TRUE,
          data |-> [i \in 1..(Len(data) - TagLen) |-> data[i][6]]]

\* crypto.subtle.decrypt({name, iv, tagLength}, key, data): the last tagLength
\* bits of data are the tag of what precedes them; the call rejects when data
\* is shorter than a tag or the tag does not verify, and resolves with the
\* plaintext otherwise.  The server's ChaCha20-Poly1305 decryption
\* (/api/decrypt-chacha) opens its input the same way.
AeadOpen(method, key, iv, data) ==
    IF Len(data) < TagLen THEN DecryptFailed
    ELSE LET n   == Len(data) - TagLen
             ct  == SubSeq(data, 1, n)
             tag == SubSeq(data, n + 1, Len(data))
         IN  IF tag = AeadTag(method, key, iv, ct)
             THEN [ok |-> TRUE, data |-> [i \in 1..n |-> ct[i][6]]]
             ELSE DecryptFailed

\* A key of a length that is not an AES key length
BadKey == 0

\* crypto.subtle.importKey("raw", aesKey, {name: "AES-GCM"}, ...) resolves
importKey(aesKey) == aesKey \in AeadKeys

\* decryptFileWithAES without its second attempt.
decryptFileWithAESNoFallback(encryptedData, aesKey, iv, tag) ==
    AeadOpen("aes-256-gcm", aesKey, iv, encryptedData \o tag)

\* decryptFileWithAES without its first attempt: the data alone is decrypted.
decryptFileWithAESDataAlone(encryptedData, aesKey, iv, tag) ==
    AeadOpen("aes-256-gcm", aesKey, iv, encryptedData)

\* encryption.js decryptFileWithAES: the tag is appended to encryptedData and
\* the whole is decrypted; when that rejects, encryptedData alone is decrypted
\* (it then has to carry its tag itself); when that rejects too, or when the
\* key cannot be imported, the function throws.
decryptFileWithAES(encryptedData, aesKey, iv, tag) ==
    LET combinedData == encryptedData \o tag
        decrypted == AeadOpen("aes-256-gcm", aesKey, iv, combinedData)
    IN  IF ~importKey(aesKey) THEN DecryptFailed
        ELSE IF decrypted.ok THEN decrypted
        ELSE AeadOpen("aes-256-gcm", aesKey, iv, encryptedData)

\* api.js decryptChaCha: the data, key and nonce are posted to
\* /api/decrypt-chacha; a response that is not ok throws.
decryptChaCha(fileData, chachaKey, nonce) ==
    AeadOpen("chacha20-poly1305", chachaKey, nonce, fileData)

\* No payload is in the envelope.
NoAead == [phase |-> "idle"]

\* ------------------------------------------------------ direct transport
\* Time in a tab is counted in polling periods (window.setInterval(..., 500)
\* in startSignalPolling); the expiry timer of a polling session
\* (setTimeout(..., 60000)) is due SessionTicks periods after its start.
Codes == 1..NumCodes
NoCode == 0            \* null connectionCode / lastReceivedCode
NoTimer == 0           \* null window.signalPollingInterval
NoPeer == 0            \* no offer / no answer / no remote description

\* p2p.js: the record initP2PWithCode stores under p2p_signal_<code> and
\* getSignalData returns for a missing item.  offer and answer name the tab
\* whose peer connection made them; an ICE candidate is <<tab, n>>, the n-th
\* candidate gathered in the tab.
EmptySignal == [offer |-> NoPeer, answer |-> NoPeer,
                candidates |-> <<>>, receiverCandidates |-> <<>>]
NoSignal == [offer |-> -1, answer |-> -1,
             candidates |-> <<>>, receiverCandidates |-> <<>>]

\* sending: the sendFile calls of the P2P branch that are still running, each
\* with its own FileReader, file data and chunk counter
NoSending == <<>>
NoPending == [null |-> TRUE, name |-> NoName, chunks |-> <<>>, totalChunks |-> -1]

\* p2p.js:6-10, websocket.js:25 and the static DOM of a tab before P2P mode:
\* no peer connection, no data channel, no codes, no polling timer.  view is
\* the card shown; codeShown the connection code display / input; p2pStatus
\* the text of the p2pStatus element; intervals / timeouts the tab's live
\* interval timers and pending expiry timers; sessions the number of timers
\* created so far; notification the last notification of sendFile.
\* localDescription: setLocalDescription has completed; generated: the number
\* of candidates gathered; applied: the remote candidates given to
\* addIceCandidate; ops: the calls of processReceivedOffer / processAnswer
\* whose setRemoteDescription has not completed yet, oldest first; events:
\* the keys with a storage event not yet dispatched to the tab; rmw: the
\* record a handler has read and not yet written back; buffer: the messages
\* given to dataChannel.send and not yet transmitted; sends: the transfers
\* started on the data channel; progressBar: the percentage the progress bar
\* shows.
InitP2PTab ==
    [ view                  |-> "initialOptions",
      currentRole           |-> "null",
      peerConnection        |-> "null",
      remoteDescription     |-> FALSE,
      peer                  |-> NoPeer,
      offerPending          |-> FALSE,
      localDescription      |-> FALSE,
      generated             |-> 0,
      applied               |-> {},
      ops                   |-> <<>>,
      events                |-> {},
      rmw                   |-> NoSignal,
      dataChannel           |-> "null",
      buffer                |-> <<>>,
      sends                 |-> 0,
      connectionCode        |-> NoCode,
      lastReceivedCode      |-> NoCode,
      codeShown             |-> FALSE,
      p2pStatus             |-> "Disconnected",
      fileInput             |-> NoFile,
      selectedFile          |-> NoFile,
      sendBtnDisabled       |-> TRUE,
      notification          |-> "none",
      signalPollingInterval |-> NoTimer,
      intervals             |-> {},
      timeouts              |-> {},
      sessions              |-> 0,
      sending               |-> NoSending,
      progressBar           |-> 0,
      channel               |-> <<>>,
      pendingP2PFileMetadata |-> NoPending,
      receivedFileName      |-> NoName,
      receivedFileBlob      |-> NoBlob ]

InitP2P == [tab |-> [c \in Clients |-> InitP2PTab],
            store |-> [code \in Codes |-> NoSignal]]

WithTab(p, c, t) == [p EXCEPT !.tab[c] = t]

\* ui.js updateP2PStatusDisplay: the status text, and on `connected` the code
\* display and the code input are hidden
updateP2PStatusDisplay(t, connected) ==
    [t EXCEPT !.p2pStatus = IF connected THEN "Connected" ELSE "Disconnected",
              !.codeShown = IF connected THEN FALSE ELSE @]

\* p2p.js isP2PConnected
isP2PConnected(t) ==
    /\ t.peerConnection = "connected"
    /\ t.dataChannel = "open"

\* The text of the progress bar when the computed percentage is not a number
NaN == -1

\* websocket.js sendFile (P2P branch) and handleP2PMessage: the percentage
\* shown after k of total chunks,
\* Math.min(Math.round((k / total) * 95) + 5, 100); an undefined total gives
\* NaN.
P2PProgress(k, total) ==
    IF total <= 0 THEN NaN
    ELSE Min((2 * 95 * k + total) \div (2 * total) + 5, 100)

\* p2p.js checkFileInputState
p2pCheckFileInputState(t) ==
    [t EXCEPT !.sendBtnDisabled = ~(isP2PConnected(t) /\ t.fileInput # NoFile)]

\* websocket.js sendFile / checkFileInputState: isPeerToPeer
isPeerToPeer(t) == t.p2pStatus = "Connected"

\* p2p.js getSignalData
getSignalData(p, code) ==
    IF p.store[code] = NoSignal THEN EmptySignal ELSE p.store[code]

\* p2p.js updateSignalData (and the setItem of initP2PWithCode) in tab c:
\* localStorage.setItem, for which every other tab gets a storage event
updateSignalData(p, c, code, data) ==
    [p EXCEPT !.store[code] = data,
              !.tab = [o \in Clients |->
                         IF o = c THEN p.tab[o]
                         ELSE [p.tab[o] EXCEPT !.events = @ \cup {code}]]]

\* p2p.js clearInterval(window.signalPollingInterval) where the code guards it
\* with `if (window.signalPollingInterval)`
clearPolling(t) ==
    IF t.signalPollingInterval # NoTimer
    THEN [t EXCEPT !.intervals = {i \in @ : i.id # t.signalPollingInterval}]
    ELSE t

\* p2p.js startSignalPolling(code): the interval in the variable is cleared,
\* a new interval and a new expiry timer are created; the expiry timers
\* created before stay pending
startSignalPolling(t, code) ==
    LET id == t.sessions + 1
    IN  [clearPolling(t) EXCEPT
            !.intervals = @ \cup {[id |-> id, code |-> code, age |-> 0]},
            !.signalPollingInterval = id,
            !.timeouts = @ \cup {[id |-> id, left |-> SessionTicks]},
            !.sessions = id]

\* p2p.js closeP2PConnection in tab c: polling stopped, channel (with the
\* messages it has not yet sent or dispatched) and peer connection closed
\* and dropped (the operations pending on the closed connection never
\* complete), the sender's signaling record removed, the receiver's code
\* forgotten, status display updated
closeP2PConnection(p, c) ==
    LET t == p.tab[c]
        t1 == [clearPolling(t) EXCEPT
                  !.signalPollingInterval = NoTimer,
                  !.dataChannel = "null",
                  !.channel = <<>>,
                  !.buffer = <<>>,
                  !.peerConnection = "null",
                  !.remoteDescription = FALSE,
                  !.localDescription = FALSE,
                  !.applied = {},
                  !.ops = <<>>,
                  !.rmw = NoSignal,
                  !.peer = NoPeer,
                  !.offerPending = FALSE,
                  !.connectionCode =
                      IF t.currentRole = "sender" THEN NoCode ELSE @,
                  !.lastReceivedCode =
                      IF t.currentRole = "receiver" THEN NoCode ELSE @]
        st == IF t.currentRole = "sender" /\ t.connectionCode # NoCode
              THEN [p.store EXCEPT ![t.connectionCode] = NoSignal]
              ELSE p.store
    IN  [tab |-> [p.tab EXCEPT ![c] = updateP2PStatusDisplay(t1, FALSE)],
         store |-> st]

\* The elements of a sequence
Range(q) == {q[i] : i \in 1..Len(q)}

\* p2p.js processReceivedOffer(offer, candidates) in tab c up to its first
\* await: setRemoteDescription is started.  code is the code the offer was
\* found under, poll the code validateConnectionCode starts polling for
\* once the call has returned.
processReceivedOffer(p, c, offer, candidates, poll) ==
    WithTab(p, c, [p.tab[c] EXCEPT !.ops =
        Append(@, [kind |-> "offer", from |-> offer,
                   code |-> p.tab[c].lastReceivedCode,
                   cands |-> Range(candidates), poll |-> poll])])

\* p2p.js processAnswer(answer) in tab c up to its await, with the
\* addIceCandidate calls processSignalDataUpdate makes right after it, which
\* the peer connection runs after the setRemoteDescription in progress
processAnswer(p, c, answer, candidates) ==
    IF p.tab[c].peerConnection = "null" THEN p
    ELSE WithTab(p, c, [p.tab[c] EXCEPT !.ops =
             Append(@, [kind |-> "answer", from |-> answer,
                        code |-> p.tab[c].connectionCode,
                        cands |-> Range(candidates), poll |-> NoCode])])

\* p2p.js processSignalDataUpdate(code, signalData) in tab c.  In the sender
\* the branch for later candidates compares the record it was given with
\* the record getSignalData returns, which is at least as long: it adds
\* nothing.
processSignalDataUpdate(p, c, code, signalData) ==
    LET t == p.tab[c]
    IN  IF /\ t.currentRole = "receiver"
           /\ t.lastReceivedCode = code
           /\ t.peerConnection # "null"
           /\ signalData.offer # NoPeer
           /\ ~t.remoteDescription
        THEN processReceivedOffer(p, c, signalData.offer,
                                  signalData.candidates, NoCode)
        ELSE IF /\ t.currentRole = "sender"
                /\ t.connectionCode = code
                /\ t.peerConnection # "null"
                /\ signalData.answer # NoPeer
                /\ ~t.remoteDescription
             THEN processAnswer(p, c, signalData.answer,
                                signalData.receiverCandidates)
             ELSE p

\* the callbacks of the live intervals of tab c, in the order the timers were
\* created
RECURSIVE PollAll(_, _, _)
PollAll(p, c, live) ==
    IF live = {} THEN p
    ELSE LET i == CHOOSE x \in live : \A y \in live : x.id <= y.id
         IN  PollAll(processSignalDataUpdate(p, c, i.code, getSignalData(p, i.code)),
                     c, live \ {i})

\* the callback of an expiry timer (p2p.js:168-173)
expire(t) == [clearPolling(t) EXCEPT !.signalPollingInterval = NoTimer]

\* ------------------------------------------------------------------ Init
Init ==
    /\ issued = {}
    /\ rooms = [k \in Keys |-> NoRoom]
    /\ conns = [i \in ConnIds |-> NoConnection]
    /\ inbox = [i \in ConnIds |-> <<>>]
    /\ outbox = [i \in ConnIds |-> <<>>]
    /\ client = [c \in Clients |-> InitClient]
    /\ clicks = [c \in Clients |-> [sends |-> 0, selects |-> 0]]
    /\ lastStatus = [c \in Clients |-> NoStatus]
    /\ aead = NoAead
    /\ p2p = InitP2P

\* --------------------------------------------------------- connections
FreeConns == {i \in ConnIds : conns[i].readyState = "NONE"}

NextConnId == CHOOSE i \in FreeConns : \A j \in FreeConns : i <= j

CloseEvent(code, reason) == [type |-> "close", code |-> code, reason |-> reason]

\* WebSocket.close() called by the page on connection id: no further message
\* event is dispatched, the close event follows.
IsOpenish(cn, id) == id # NoConn /\ cn[id].readyState \in {"CONNECTING", "OPEN"}

ClosedConns(cn, id) ==
    IF IsOpenish(cn, id) THEN [cn EXCEPT ![id].readyState = "CLOSED"] ELSE cn

ClosedInbox(cn, inb, id) ==
    IF IsOpenish(cn, id) THEN [inb EXCEPT ![id] = <<CloseEvent(1000, "")>>] ELSE inb

\* websocket.js connectWebSocket(role), called with the tab's state s
connectWebSocket(c, s, role) ==
    /\ FreeConns # {}
    /\ LET n   == NextConnId
           old == s.wsConnection
       IN  /\ conns' = [ClosedConns(conns, old) EXCEPT ![n] =
                          [client |-> c, key |-> s.currentSecretKey, role |-> role,
                           readyState |-> "CONNECTING", srv |-> "pending",
                           rejectedBy |-> NoConn, completed |-> FALSE]]
           /\ inbox' = ClosedInbox(conns, inbox, old)
           /\ client' = [client EXCEPT ![c] =
                          [s EXCEPT !.transferInProgress = FALSE,
                                    !.wsConnection = n]]
           /\ lastStatus' = [lastStatus EXCEPT ![c] = NoStatus]

\* ------------------------------------------------------ registry over HTTP
\* Section 4.1 create_room, and api.js createRoom on success (after ui.js
\* showCreateRoomOptions): createDirectRoom stores the key in currentSecretKey,
\* createFaceAuthRoom writes it into the faceAuthRoomKey element only.
CreateRoom(c, n, face) ==
    /\ UNCHANGED <<aead, p2p>>
    /\ "initialOptions" \in client[c].shown
    /\ \E k \in Keys \ issued :
        /\ \A j \in Keys \ issued : k <= j
        /\ issued' = issued \cup {k}
        /\ rooms' = [rooms EXCEPT ![k] = NewRoom(n)]
        /\ client' = [client EXCEPT ![c] =
             IF face
             THEN [@ EXCEPT !.faceAuthRoomKey = k,
                            !.shown = (@ \ {"initialOptions"}) \cup {"roomCreatedFace"}]
             ELSE [@ EXCEPT !.currentSecretKey = k,
                            !.shown = (@ \ {"initialOptions"}) \cup {"roomCreatedDirect"}]]
    /\ UNCHANGED <<conns, inbox, outbox, clicks, lastStatus>>

\* Section 4.1 check_room: pure lookup
CheckRoomLookup(k) == [valid |-> rooms[k].exists, failed |-> FALSE]

\* checkRoom that takes every answered request for a valid room
checkRoomAnyAnswer(k, fetchOk) == [valid |-> fetchOk, failed |-> ~fetchOk]

\* api.js checkRoom: the server's answer, or {valid: false, message} when the
\* fetch (or the parsing of its response) throws.
checkRoom(k, fetchOk) ==
    IF fetchOk THEN CheckRoomLookup(k) ELSE [valid |-> FALSE, failed |-> TRUE]

\* ui.js showJoinRoomOptions
ShowJoinRoomOptions(c) ==
    /\ UNCHANGED <<aead, p2p>>
    /\ "initialOptions" \in client[c].shown
    /\ client' = [client EXCEPT ![c].shown = (@ \ {"initialOptions"})
                                               \cup {"joinRoomOptions"}]
    /\ UNCHANGED <<issued, rooms, conns, inbox, outbox, clicks, lastStatus>>

\* joinRoomWithKey against a check_room that ends the transfer of the room
\* it looks up
JoinRoomWithKeyResetting(c, k, fetchOk) ==
    /\ UNCHANGED <<aead, p2p>>
    /\ "joinRoomOptions" \in client[c].shown
    /\ ~client[c].check.pending
    /\ client' = [client EXCEPT ![c].check =
                    [pending |-> TRUE, key |-> k,
                     valid |-> checkRoom(k, fetchOk).valid,
                     failed |-> checkRoom(k, fetchOk).failed]]
    /\ rooms' = [rooms EXCEPT ![k].transferring = FALSE]
    /\ UNCHANGED <<issued, conns, inbox, outbox, clicks, lastStatus>>

\* roomJoining.js joinRoomWithKey up to `await checkRoom(secretKey)`: the
\* request is answered; the continuation is JoinRoomContinue.
JoinRoomWithKey(c, k, fetchOk) ==
    /\ UNCHANGED <<aead, p2p>>
    /\ "joinRoomOptions" \in client[c].shown
    /\ ~client[c].check.pending
    /\ client' = [client EXCEPT ![c].check =
                    [pending |-> TRUE, key |-> k,
                     valid |-> checkRoom(k, fetchOk).valid,
                     failed |-> checkRoom(k, fetchOk).failed]]
    /\ UNCHANGED <<issued, rooms, conns, inbox, outbox, clicks, lastStatus>>

\* roomJoining.js setupAsReceiver, before its connectWebSocket call
setupAsReceiver(s) ==
    [s EXCEPT !.currentRole = "receiver",
              !.shown = (@ \ {"joinRoomOptions"}) \cup {"fileTransfer"}]

\* roomJoining.js autoJoinWithKey, called at page load with the key of the
\* URL, up to its await of checkRoom.
AutoJoinWithKey(c, k, fetchOk) ==
    /\ UNCHANGED <<aead, p2p>>
    /\ client[c] = InitClient
    /\ client' = [client EXCEPT ![c].check =
                    [pending |-> TRUE, key |-> k,
                     valid |-> checkRoom(k, fetchOk).valid,
                     failed |-> checkRoom(k, fetchOk).failed,
                     auto |-> TRUE]]
    /\ UNCHANGED <<issued, rooms, conns, inbox, outbox, clicks, lastStatus>>

\* roomJoining.js joinRoomWithKey and autoJoinWithKey after the await; the
\* latter also hides initialOptions.
JoinRoomContinue(c) ==
    /\ UNCHANGED <<aead, p2p>>
    /\ LET s == client[c]
           r == s.check
           s0 == [s EXCEPT !.check = [pending |-> FALSE],
                           !.shown = IF "auto" \in DOMAIN r /\ r.valid
                                     THEN @ \ {"initialOptions"} ELSE @]
       IN  /\ r.pending
           /\ IF r.valid
              THEN /\ connectWebSocket(c, setupAsReceiver(
                                             [s0 EXCEPT !.currentSecretKey = r.key]),
                                       "receiver")
                   /\ UNCHANGED <<issued, rooms, outbox, clicks>>
              ELSE /\ client' = [client EXCEPT ![c] = s0]
                   /\ UNCHANGED <<issued, rooms, conns, inbox, outbox, clicks, lastStatus>>

\* roomJoining.js extractKeyAndJoin: the key that /api/extract-secret-key
\* finds in the pasted invitation text (any key a carrier can hold, of a room
\* that exists or not) becomes currentSecretKey and the tab sets itself up
\* as receiver; a response without status 'success' changes nothing.
ExtractKeyAndJoin(c, k, success) ==
    /\ UNCHANGED <<aead, p2p>>
    /\ "joinRoomOptions" \in client[c].shown
    /\ ~client[c].check.pending
    /\ IF success
       THEN /\ connectWebSocket(c, setupAsReceiver(
                                      [client[c] EXCEPT !.currentSecretKey = k]),
                                "receiver")
            /\ UNCHANGED <<issued, rooms, outbox, clicks>>
       ELSE UNCHANGED <<issued, rooms, conns, inbox, outbox, client, clicks,
                        lastStatus>>

\* roomJoining.js extractKeyFromImageAndJoin: the same with the key that
\* /api/extract-key-from-image finds in the uploaded image.
ExtractKeyFromImageAndJoin(c, k, success) ==
    /\ UNCHANGED <<aead, p2p>>
    /\ "joinRoomOptions" \in client[c].shown
    /\ ~client[c].check.pending
    /\ IF success
       THEN /\ connectWebSocket(c, setupAsReceiver(
                                      [client[c] EXCEPT !.currentSecretKey = k]),
                                "receiver")
            /\ UNCHANGED <<issued, rooms, outbox, clicks>>
       ELSE UNCHANGED <<issued, rooms, conns, inbox, outbox, client, clicks,
                        lastStatus>>

\* roomJoining.js continueAsSender: a non-empty faceAuthRoomKey element
\* replaces currentSecretKey.
ContinueAsSender(c) ==
    /\ UNCHANGED <<aead, p2p>>
    /\ client[c].shown \cap RoomCreatedCards # {}
    /\ connectWebSocket(c, [client[c] EXCEPT
                              !.currentSecretKey =
                                  IF client[c].faceAuthRoomKey # NoKey
                                  THEN client[c].faceAuthRoomKey ELSE @,
                              !.currentRole = "sender",
                              !.shown = (@ \ RoomCreatedCards) \cup {"fileTransfer"}],
                        "sender")
    /\ UNCHANGED <<issued, rooms, outbox, clicks>>

\* roomJoining.js leaveRoom: websocket.js closeWebSocket, state.js resetState,
\* the UI reset and ui.js resetAllForms.
LeaveRoom(c) ==
    /\ UNCHANGED <<aead, p2p>>
    /\ LET s == client[c]
       IN  /\ "fileTransfer" \in s.shown
           /\ conns' = ClosedConns(conns, s.wsConnection)
           /\ inbox' = ClosedInbox(conns, inbox, s.wsConnection)
           /\ client' = [client EXCEPT ![c] =
                           [s EXCEPT !.wsConnection = NoConn,
                                     !.currentSecretKey = NoKey,
                                     !.currentRole = "null",
                                     !.selectedFile = NoFile,
                                     !.receivedFileName = NoName,
                                     !.receivedFileBlob = NoBlob,
                                     !.encryptionMetadata = NoMeta,
                                     !.downloadBtn = FALSE,
                                     !.shown = (@ \ (Cards \ {"roomCreatedFace"}))
                                                 \cup {"initialOptions"}]]
           /\ lastStatus' = [lastStatus EXCEPT ![c] = NoStatus]
           /\ UNCHANGED <<issued, rooms, outbox, clicks>>

\* ------------------------------------------------------------ sender tab
\* main.js: change listener of the file input (setSelectedFile, then
\* checkFileInputState)
SelectFile(c, f) ==
    /\ UNCHANGED <<aead, p2p>>
    /\ "fileTransfer" \in client[c].shown
    /\ client[c].currentRole = "sender"
    /\ clicks[c].selects < MaxSelects
    /\ clicks' = [clicks EXCEPT ![c].selects = @ + 1]
    /\ client' = [client EXCEPT ![c] =
                    checkFileInputState([client[c] EXCEPT !.selectedFile = f], conns)]
    /\ UNCHANGED <<issued, rooms, conns, inbox, outbox, lastStatus>>

\* websocket.js sendFile, relay branch, reached by a click on the enabled
\* send button, with `method` selected in the encryptionMethod element.  The
\* early returns leave the state as it is.
SendFile(c, method) ==
    /\ UNCHANGED <<aead, p2p>>
    /\ LET s  == client[c]
           ws == s.wsConnection
           bytes == FileBytes(c, s.selectedFile)
       IN  /\ "fileTransfer" \in s.shown
           /\ s.currentRole = "sender"
           /\ ~s.sendBtnDisabled
           /\ s.selectedFile # NoFile
           /\ WsOpen(s, conns)
           /\ ~s.transferInProgress
           /\ Len(s.readers) < MaxReaders
           /\ clicks[c].sends < MaxSends
           /\ clicks' = [clicks EXCEPT ![c].sends = @ + 1]
           /\ outbox' = [outbox EXCEPT ![ws] = Append(@,
                           [type |-> "start_transfer",
                            filename |-> FileName(c, s.selectedFile),
                            filesize |-> s.selectedFile,
                            method |-> method])]
           /\ client' = [client EXCEPT ![c] =
                           [s EXCEPT !.transferInProgress = TRUE,
                                     !.sendBtnDisabled = TRUE,
                                     !.readers = Append(@,
                                         [chunkId |-> 0,
                                          totalChunks |-> CeilDiv(s.selectedFile, ChunkSize),
                                          data |-> Slice(bytes, 0, ChunkSize)])]]
           /\ UNCHANGED <<issued, rooms, conns, inbox, lastStatus>>

RemoveAt(seq, i) == SubSeq(seq, 1, i - 1) \o SubSeq(seq, i + 1, Len(seq))

\* websocket.js sendFile: reader.onload of the i-th live FileReader.  It reads
\* the module-level wsConnection and selectedFile as they are now; a null
\* wsConnection or selectedFile throws and ends the loop.
ReaderOnload(c, i) ==
    /\ UNCHANGED <<aead, p2p>>
    /\ LET s  == client[c]
           r  == s.readers[i]
           ws == s.wsConnection
           next == r.chunkId + 1
           start == next * ChunkSize
       IN  /\ i \in 1..Len(s.readers)
           /\ IF WsOpen(s, conns)
              THEN /\ outbox' = [outbox EXCEPT ![ws] = @ \o
                        << [type |-> "binary", data |-> r.data],
                           [type |-> "chunk_meta", chunk_id |-> r.chunkId,
                            total_chunks |-> r.totalChunks] >>]
                   /\ client' = [client EXCEPT ![c].readers =
                        IF next < r.totalChunks /\ s.selectedFile # NoFile
                        THEN [@ EXCEPT ![i] =
                               [chunkId |-> next, totalChunks |-> r.totalChunks,
                                data |-> Slice(FileBytes(c, s.selectedFile), start,
                                               Min(start + ChunkSize, s.selectedFile))]]
                        ELSE RemoveAt(@, i)]
              ELSE /\ outbox' = outbox
                   /\ client' = [client EXCEPT ![c].readers = RemoveAt(@, i)]
           /\ UNCHANGED <<issued, rooms, conns, inbox, clicks, lastStatus>>

\* The end of the i-th pending processEncryptedFile call that also discards
\* the stored blob
showDownloadDiscarding(s, i) ==
    [s EXCEPT !.jobs = RemoveAt(@, i), !.downloadBtn = TRUE,
              !.receivedFileBlob = NoBlob]

\* encryption.js processEncryptedFile: the i-th pending call ends by showing
\* the download button (after the decryption, in the catch block and at the
\* returns for missing parameters)
showDownload(s, i) ==
    [s EXCEPT !.jobs = RemoveAt(@, i), !.downloadBtn = TRUE]

\* encryption.js processEncryptedFile after an await, for the i-th pending
\* call of the tab: after `await receivedFileBlob.arrayBuffer()` it reads the
\* module-level encryptionMetadata as it is now (a null one throws into the
\* catch block); after the awaited decryption, which resolves (ok) or rejects.
\* Every path from here shows the download button.
ProcessEncryptedFileStep(c, i, ok) ==
    /\ UNCHANGED <<aead, p2p>>
    /\ LET s == client[c]
           job == s.jobs[i]
           m == s.encryptionMetadata
           method == IF m.method = "none" THEN "aes-256-gcm" ELSE m.method
           missing == IF method = "aes-256-gcm"
                      THEN m.aes_key = 0 \/ m.iv = 0 \/ m.tag = 0
                      ELSE m.chacha_key = 0 \/ m.nonce = 0
           show == showDownload(s, i)
       IN  /\ i \in 1..Len(s.jobs)
           /\ client' = [client EXCEPT ![c] =
                IF job.stage = "read"
                THEN IF m.null \/ missing
                     THEN show
                     ELSE [s EXCEPT !.jobs[i].stage = "decrypt"]
                ELSE IF ok
                     THEN [show EXCEPT !.receivedFileBlob = Blob(Decrypted(job.fileData))]
                     ELSE show]
           /\ UNCHANGED <<issued, rooms, conns, inbox, outbox, clicks, lastStatus>>

\* websocket.js handleErrorMessage: the setTimeout callback of a 'maximum
\* capacity' error
CapacityTimeout(c) ==
    /\ UNCHANGED <<aead, p2p>>
    /\ LET s == client[c]
       IN  /\ s.capacityTimers > 0
           /\ conns' = ClosedConns(conns, s.wsConnection)
           /\ inbox' = ClosedInbox(conns, inbox, s.wsConnection)
           /\ client' = [client EXCEPT ![c] =
                           [s EXCEPT !.capacityTimers = @ - 1,
                                     !.wsConnection = NoConn,
                                     !.shown = IF s.currentRole = "receiver"
                                               THEN (@ \ {"fileTransfer"})
                                                      \cup {"joinRoomOptions"}
                                               ELSE @]]
           /\ lastStatus' = [lastStatus EXCEPT ![c] = NoStatus]
           /\ UNCHANGED <<issued, rooms, outbox, clicks>>

\* The browser dispatches the next event of connection id: onopen, onclose
\* (websocket.js connectWebSocket) or onmessage (handleWebSocketMessage).
ClientReceive(id) ==
    /\ UNCHANGED <<aead, p2p>>
    /\ LET c  == conns[id].client
           s  == client[c]
           ev == Head(inbox[id])
       IN  /\ inbox[id] # <<>>
           /\ inbox' = [inbox EXCEPT ![id] = Tail(@)]
           /\ CASE ev.type = "open" ->
                     /\ conns' = [conns EXCEPT ![id].readyState = "OPEN"]
                     /\ client' = [client EXCEPT ![c] =
                           IF conns[id].role = "sender"
                           THEN checkFileInputState(s, conns')
                           ELSE s]
                [] ev.type = "close" ->
                     /\ conns' = [conns EXCEPT ![id].readyState = "CLOSED"]
                     /\ client' = client
                [] OTHER ->
                     /\ conns' = conns
                     /\ client' = [client EXCEPT ![c] =
                                     handleWebSocketMessage(s, conns, ev)]
           /\ lastStatus' = IF ev.type = "room_status" /\ s.wsConnection = id
                            THEN [lastStatus EXCEPT ![c] = ev]
                            ELSE lastStatus
           /\ UNCHANGED <<issued, rooms, outbox, clicks>>

\* ------------------------------------------- relay server (from the spec)
ErrorMsg(message) == [type |-> "error", message |-> message]

\* Section 4.2: percentage = round(chunks / total_chunks * 100)
Percentage(k, total) == IF total = 0 THEN 100 ELSE RoundPercent(k, total)

\* Sections 4.1 join and 4.3 connect(role): the upgrade of connection id.
\* An unknown key is refused; a receiver over capacity is accepted, told
\* 'maximum capacity' and closed with a non-1000 code; otherwise the
\* connection is registered and room_status goes to all members.
ServerJoin(id) ==
    /\ UNCHANGED <<aead, p2p>>
    /\ LET cn   == conns[id]
           k    == cn.key
           room == rooms[k]
           joined == IF cn.role = "sender"
                     THEN [room EXCEPT !.senders = @ \cup {id}]
                     ELSE [room EXCEPT !.receivers = @ \cup {id}]
       IN  /\ cn.srv = "pending"
           /\ IF k = NoKey \/ ~room.exists
              THEN /\ conns' = [conns EXCEPT ![id].srv = "unknown"]
                   /\ inbox' = Deliver(inbox, {id}, <<CloseEvent(1008, "Room not found")>>)
                   /\ rooms' = rooms
              ELSE IF cn.role = "receiver" /\ ~HasCapacity(room)
              THEN /\ conns' = [conns EXCEPT ![id].srv = "full"]
                   /\ inbox' = Deliver(inbox, {id},
                                  << [type |-> "open"],
                                     ErrorMsg("maximum capacity"),
                                     CloseEvent(1008, "Maximum number of receivers") >>)
                   /\ rooms' = rooms
              ELSE /\ CanDeliver(Members(room), 1)
                   /\ conns' = [conns EXCEPT ![id].srv = "joined"]
                   /\ rooms' = [rooms EXCEPT ![k] = joined]
                   /\ inbox' = Deliver(Deliver(inbox, {id}, << [type |-> "open"] >>),
                                       Members(joined), <<RoomStatus(joined)>>)
           /\ UNCHANGED <<issued, outbox, client, clicks, lastStatus>>

\* The rejections made during the transfer of connection o are history once
\* that transfer is over.
Forget(cn, o) ==
    [i \in ConnIds |-> IF cn[i].rejectedBy = o
                       THEN [cn[i] EXCEPT !.rejectedBy = NoConn] ELSE cn[i]]

\* Record (history) whether the live connections of `ids` have been sent
\* transfer_complete since their last transfer_start.
Mark(cn, ids, v) ==
    [i \in ConnIds |-> IF i \in Live(ids) THEN [cn[i] EXCEPT !.completed = v] ELSE cn[i]]

\* Section 4.3: the encryption_metadata the server attaches to
\* transfer_progress for a transfer of the given method: none without
\* encryption, else the key material, complete or with a member missing.
MetaFor(method) ==
    CASE method = "aes-256-gcm" ->
            {AesMeta(1, 1, 1), AesMeta(1, 0, 1), AesMeta(0, 1, 1)}
      [] method = "chacha20-poly1305" ->
            {ChaChaMeta(1, 1), ChaChaMeta(1, 0)}
      [] OTHER -> {NoMeta}

\* The key material attached to the progress message of every chunk
MetaEveryChunk(method, chunk_id) == MetaFor(method)

\* An encryption_metadata object that carries a file hash and nothing else:
\* the members the client reads (method, keys, iv, nonce, tag) are undefined.
HashMeta == [NoMeta EXCEPT !.null = FALSE]

\* Section 4.3, "attaching the key material only once (first chunk)": the
\* progress message of the first chunk carries the key material, that of a
\* later chunk carries no encryption_metadata or the file hash alone.
MetaOnce(method, chunk_id) ==
    IF chunk_id = 0 THEN MetaFor(method) ELSE {NoMeta, HashMeta}

\* Section 4.3 start_transfer, binary_chunk / chunk_metadata and
\* transfer_complete: the server takes the next frame of connection id (the
\* frames a closing connection had sent are still read).  The transfer ends
\* with the chunk whose chunk_id is total_chunks - 1.
ServerReceiveWith(id, once) ==
    /\ UNCHANGED <<aead, p2p>>
    /\ LET cn   == conns[id]
           k    == cn.key
           room == rooms[k]
           f    == Head(outbox[id])
       IN  /\ cn.srv = "joined"
           /\ outbox[id] # <<>>
           /\ outbox' = [outbox EXCEPT ![id] = Tail(@)]
           /\ CASE f.type = "start_transfer" ->
                     IF cn.role = "sender" /\ ReadyToTransfer(room)
                     THEN /\ CanDeliver(room.receivers, 1)
                          /\ rooms' = [rooms EXCEPT ![k].transferring = TRUE,
                                                    ![k].owner = id,
                                                    ![k].filename = f.filename,
                                                    ![k].method = f.method]
                          /\ inbox' = Deliver(inbox, room.receivers,
                                         << [type |-> "transfer_start",
                                             filename |-> f.filename,
                                             filesize |-> f.filesize] >>)
                          /\ conns' = Mark(conns, room.receivers, FALSE)
                     ELSE /\ CanDeliver({id}, 1)
                          /\ rooms' = rooms
                          /\ inbox' = Deliver(inbox, {id},
                                         << ErrorMsg(IF room.transferring
                                                     THEN "transfer in progress"
                                                     ELSE "not ready") >>)
                          /\ conns' = [conns EXCEPT ![id].rejectedBy =
                                         IF room.transferring THEN room.owner ELSE NoConn]
                [] f.type = "binary" ->
                     /\ CanDeliver(room.receivers, 1)
                     /\ rooms' = rooms
                     /\ inbox' = Deliver(inbox, room.receivers,
                                         << [type |-> "binary", data |-> f.data,
                                             from |-> id] >>)
                     /\ conns' = conns
                [] f.type = "chunk_meta" ->
                     IF room.transferring /\ room.owner = id
                     THEN \E meta \in (IF once THEN MetaOnce(room.method, f.chunk_id)
                                           ELSE MetaEveryChunk(room.method, f.chunk_id)) :
                          LET progress == [type |-> "transfer_progress",
                                           percentage |-> Percentage(f.chunk_id + 1,
                                                                     f.total_chunks),
                                           encryption_metadata |-> meta]
                              done == f.chunk_id = f.total_chunks - 1
                              complete == [type |-> "transfer_complete",
                                           filename |-> room.filename]
                          IN  /\ CanDeliver(Members(room), 2)
                              /\ rooms' = IF done
                                          THEN [rooms EXCEPT ![k].transferring = FALSE,
                                                             ![k].owner = NoConn,
                                                             ![k].filename = NoName,
                                                             ![k].method = "none"]
                                          ELSE rooms
                              /\ inbox' = IF done
                                          THEN Deliver(Deliver(inbox, room.receivers,
                                                               <<progress>>),
                                                       Members(room), <<complete>>)
                                          ELSE Deliver(inbox, room.receivers, <<progress>>)
                              /\ conns' = IF done
                                          THEN Mark(Forget(conns, id), room.receivers, TRUE)
                                          ELSE conns
                     ELSE /\ rooms' = rooms
                          /\ inbox' = inbox
                          /\ conns' = conns
           /\ UNCHANGED <<issued, client, clicks, lastStatus>>

\* The server that attaches the key material to every progress message
ServerReceive(id) == ServerReceiveWith(id, FALSE)

\* The server that attaches the key material once
ServerReceiveOnce(id) == ServerReceiveWith(id, TRUE)

\* A disconnect that releases the slot and leaves the transfer in progress
DisconnectedKeepsTransfer(room, id) ==
    [room EXCEPT !.senders = @ \ {id}, !.receivers = @ \ {id}]

\* Section 4.3, disconnect at any state: the room without connection id; the
\* transfer that connection was in the middle of is abandoned.
Disconnected(room, id) ==
    LET left == [room EXCEPT !.senders = @ \ {id}, !.receivers = @ \ {id}]
    IN  IF room.owner = id
        THEN [left EXCEPT !.transferring = FALSE, !.owner = NoConn,
                          !.filename = NoName, !.method = "none"]
        ELSE left

\* Sections 4.1 leave and 4.3 disconnect: the server notices that connection
\* id is closed, releases its slot, abandons its transfer and re-broadcasts
\* room_status.
ServerLeave(id) ==
    /\ UNCHANGED <<aead, p2p>>
    /\ LET cn   == conns[id]
           k    == cn.key
           room == rooms[k]
           rest == Disconnected(room, id)
       IN  /\ cn.srv = "joined"
           /\ cn.readyState = "CLOSED"
           /\ CanDeliver(Members(rest), 1)
           /\ conns' = [Forget(conns, id) EXCEPT ![id].srv = "done",
                                                 ![id].rejectedBy = NoConn]
           /\ rooms' = [rooms EXCEPT ![k] = rest]
           /\ inbox' = Deliver(inbox, Members(rest), <<RoomStatus(rest)>>)
           /\ outbox' = [outbox EXCEPT ![id] = <<>>]
           /\ UNCHANGED <<issued, client, clicks, lastStatus>>

\* Section 3, Room lifecycle: a room all parties have left (or that idles
\* empty) is destroyed; its key is never issued again.
ExpireRoom(k) ==
    /\ UNCHANGED <<aead, p2p>>
    /\ rooms[k].exists
    /\ Members(rooms[k]) = {}
    /\ rooms' = [rooms EXCEPT ![k] = NoRoom]
    /\ UNCHANGED <<issued, conns, inbox, outbox, client, clicks, lastStatus>>

\* Section 4.2, failure modes: a transport that hands two adjacent events of
\* a transfer to the receiver in the other order.
Reorder(id, j) ==
    /\ UNCHANGED <<aead, p2p>>
    /\ conns[id].role = "receiver"
    /\ j \in 1..(Len(inbox[id]) - 1)
    /\ {inbox[id][j].type, inbox[id][j + 1].type}
          \subseteq {"binary", "transfer_progress", "transfer_complete"}
    /\ inbox[id][j] # inbox[id][j + 1]
    /\ inbox' = [inbox EXCEPT ![id] = [@ EXCEPT ![j] = inbox[id][j + 1],
                                                ![j + 1] = inbox[id][j]]]
    /\ UNCHANGED <<issued, rooms, conns, outbox, client, clicks, lastStatus>>

\* ------------------------------------------------- envelope, step by step
\* The states an envelope starts from: a method, the layout in which the
\* ciphertext travels (tag appended, or tag in the metadata only), key
\* material and a payload.
AeadInputs ==
    {[phase |-> "input", method |-> m, layout |-> l, key |-> k, iv |-> v,
      plain |-> pl, data |-> <<>>, tag |-> <<>>, digest |-> Sha256(pl),
      tampered |-> "none", ok |-> FALSE, out |-> <<>>, integrity |-> FALSE] :
        m \in AeadMethods, l \in Layouts, k \in AeadKeys, v \in Ivs,
        pl \in Payloads}

InitAead ==
    /\ issued = {}
    /\ rooms = [k \in Keys |-> NoRoom]
    /\ conns = [i \in ConnIds |-> NoConnection]
    /\ inbox = [i \in ConnIds |-> <<>>]
    /\ outbox = [i \in ConnIds |-> <<>>]
    /\ client = [c \in Clients |-> InitClient]
    /\ clicks = [c \in Clients |-> [sends |-> 0, selects |-> 0]]
    /\ lastStatus = [c \in Clients |-> NoStatus]
    /\ aead \in AeadInputs
    /\ p2p = InitP2P

\* The sending side seals the payload (section 4.4).  AES-GCM emits
\* {key, iv, tag}; ChaCha20-Poly1305 emits {key, nonce} and always carries its
\* tag appended to the ciphertext.
Seal ==
    /\ aead.phase = "input"
    /\ aead.method = "chacha20-poly1305" => aead.layout = "concatenated"
    /\ LET sealed == AeadSeal(aead.method, aead.key, aead.iv, aead.plain)
       IN  aead' = [aead EXCEPT
                      !.phase = "sealed",
                      !.data = IF aead.layout = "concatenated"
                               THEN sealed.ct \o sealed.tag ELSE sealed.ct,
                      !.tag = IF aead.method = "aes-256-gcm"
                              THEN sealed.tag ELSE <<>>]
    /\ UNCHANGED <<relayVars, p2p>>

\* One byte of the carried data, ciphertext or appended tag, is changed.
ChangedByte(byte, b) ==
    IF byte[1] = "enc" THEN [byte EXCEPT ![6] = b] ELSE [byte EXCEPT ![7] = "changed"]

TamperCiphertext(i, b) ==
    /\ aead.phase = "sealed"
    /\ aead.tampered = "none"
    /\ i \in 1..Len(aead.data)
    /\ ChangedByte(aead.data[i], b) # aead.data[i]
    /\ aead' = [aead EXCEPT !.data = [@ EXCEPT ![i] = ChangedByte(@, b)],
                            !.tampered = "ciphertext"]
    /\ UNCHANGED <<relayVars, p2p>>

\* The key of the metadata arrives damaged: what the receiver converts from
\* hex is not a key of a valid length.
TamperKey ==
    /\ aead.phase = "sealed"
    /\ aead.tampered = "none"
    /\ aead' = [aead EXCEPT !.key = BadKey, !.tampered = "key"]
    /\ UNCHANGED <<relayVars, p2p>>

\* encryption.js processEncryptedFile, the decryption proper: the receiver
\* opens what it was sent with the key material of the metadata.
Open ==
    /\ aead.phase = "sealed"
    /\ LET r == IF aead.method = "aes-256-gcm"
                THEN decryptFileWithAES(aead.data, aead.key, aead.iv, aead.tag)
                ELSE decryptChaCha(aead.data, aead.key, aead.iv)
       IN  aead' = [aead EXCEPT !.phase = "opened", !.ok = r.ok, !.out = r.data]
    /\ UNCHANGED <<relayVars, p2p>>

\* One byte of the decrypted plaintext is changed.
TamperPlaintext(i, b) ==
    /\ aead.phase = "opened"
    /\ aead.ok
    /\ aead.tampered = "none"
    /\ i \in 1..Len(aead.out)
    /\ b # aead.out[i]
    /\ aead' = [aead EXCEPT !.out = [@ EXCEPT ![i] = b], !.tampered = "plaintext"]
    /\ UNCHANGED <<relayVars, p2p>>

\* The integrity option (section 4.4): SHA-256 of the decrypted plaintext is
\* compared with the digest the sender delivered.
VerifyIntegrity ==
    /\ aead.phase = "opened"
    /\ aead.ok
    /\ aead' = [aead EXCEPT !.phase = "verified",
                            !.integrity = (Sha256(aead.out) = aead.digest)]
    /\ UNCHANGED <<relayVars, p2p>>

\* ------------------------------------------------- direct transport, steps
\* ui.js showP2POptions
ShowP2POptions(c) ==
    /\ "initialOptions" \in client[c].shown
    /\ p2p.tab[c].view = "initialOptions"
    /\ p2p' = WithTab(p2p, c, [p2p.tab[c] EXCEPT !.view = "p2pRoleSelection"])
    /\ UNCHANGED <<relayVars, aead>>

\* ui.js selectP2PRole(role) with p2p.js initP2PWithCode(role, null) and
\* initP2PConnection: the role is stored, an earlier connection is closed, a
\* new peer connection is made; the sender makes the data channel, starts
\* createOffer, draws `code` and stores an empty signaling record under it;
\* the receiver is shown the code input.  No WebSocket is opened.
SelectP2PRole(c, role, code) ==
    /\ p2p.tab[c].view = "p2pRoleSelection"
    /\ LET p0 == WithTab(p2p, c, [p2p.tab[c] EXCEPT !.view = "fileTransfer",
                                                    !.currentRole = role])
           p1 == closeP2PConnection(p0, c)
           t1 == [p1.tab[c] EXCEPT !.peerConnection = "new"]
       IN  IF role = "sender"
           THEN p2p' = updateSignalData(
                         WithTab(p1, c, [t1 EXCEPT !.dataChannel = "connecting",
                                                   !.offerPending = TRUE,
                                                   !.connectionCode = code,
                                                   !.codeShown = TRUE]),
                         c, code, EmptySignal)
           ELSE p2p' = WithTab(p1, c, [t1 EXCEPT !.codeShown = TRUE])
    /\ UNCHANGED <<relayVars, aead>>

\* p2p.js createOffer after its awaits: the local description is set and
\* the offer is stored under the sender's code
CreateOffer(c) ==
    /\ p2p.tab[c].offerPending
    /\ LET t == [p2p.tab[c] EXCEPT !.offerPending = FALSE,
                                   !.localDescription = TRUE]
           p1 == WithTab(p2p, c, t)
       IN  p2p' = IF t.connectionCode # NoCode
                  THEN updateSignalData(p1, c, t.connectionCode,
                           [getSignalData(p1, t.connectionCode) EXCEPT !.offer = c])
                  ELSE p1
    /\ UNCHANGED <<relayVars, aead>>

\* The polling sessions tab c is still to start: the calls of
\* validateConnectionCode waiting in processReceivedOffer
PendingPolls(t) == Cardinality({i \in 1..Len(t.ops) : t.ops[i].poll # NoCode})

\* p2p.js validateConnectionCode(code), from the button next to the code
\* input: the code is remembered; without an offer under it polling is
\* started; an offer found under it is processed, and polling is started
\* when processReceivedOffer has returned
ValidateConnectionCode(c, code) ==
    /\ p2p.tab[c].view = "fileTransfer"
    /\ p2p.tab[c].currentRole = "receiver"
    /\ p2p.tab[c].codeShown
    /\ p2p.tab[c].sessions + PendingPolls(p2p.tab[c]) < MaxSessions
    /\ Len(p2p.tab[c].ops) < MaxOps
    /\ LET p1 == WithTab(p2p, c, [p2p.tab[c] EXCEPT !.lastReceivedCode = code])
           signalData == getSignalData(p1, code)
       IN  p2p' = IF signalData.offer = NoPeer
                  THEN WithTab(p1, c, startSignalPolling(p1.tab[c], code))
                  ELSE processReceivedOffer(p1, c, signalData.offer,
                                            signalData.candidates, code)
    /\ UNCHANGED <<relayVars, aead>>

\* p2p.js processReceivedOffer / processAnswer after the await of
\* setRemoteDescription, for the oldest call in progress in tab c: the remote
\* description is set and the candidates passed along are added; the
\* receiver creates its answer, sets it as local description and stores it
\* under lastReceivedCode as it is now; validateConnectionCode then starts
\* polling.
SetRemoteDescriptionDone(c) ==
    /\ p2p.tab[c].ops # <<>>
    /\ LET t == p2p.tab[c]
           op == Head(t.ops)
           t1 == [t EXCEPT !.ops = Tail(@),
                           !.remoteDescription = TRUE,
                           !.peer = op.from,
                           !.applied = @ \cup op.cands,
                           !.localDescription =
                               IF op.kind = "offer" THEN TRUE ELSE @]
           p1 == WithTab(p2p, c, t1)
           p2 == IF op.kind = "offer" /\ t1.lastReceivedCode # NoCode
                 THEN updateSignalData(p1, c, t1.lastReceivedCode,
                          [getSignalData(p1, t1.lastReceivedCode)
                              EXCEPT !.answer = c])
                 ELSE p1
       IN  p2p' = IF op.poll # NoCode
                  THEN WithTab(p2, c, startSignalPolling(p2.tab[c], op.poll))
                  ELSE p2
    /\ UNCHANGED <<relayVars, aead>>

\* p2p.js peerConnection.onicecandidate with a candidate, in a tab whose
\* local description is set: the candidate is appended to the record of the
\* tab's code
appendCandidate(data, role, cand) ==
    IF role = "sender" THEN [data EXCEPT !.candidates = Append(@, cand)]
    ELSE [data EXCEPT !.receiverCandidates = Append(@, cand)]

\* The code onicecandidate writes under
candidateCode(t) ==
    IF t.currentRole = "sender" THEN t.connectionCode
    ELSE IF t.currentRole = "receiver" THEN t.lastReceivedCode
    ELSE NoCode

\* The candidate is gathered when the handler is dispatched
CanGather(t) ==
    /\ t.peerConnection \in {"new", "connected"}
    /\ t.localDescription
    /\ t.rmw = NoSignal
    /\ t.generated < MaxCandidates

IceCandidate(c) ==
    /\ CanGather(p2p.tab[c])
    /\ LET t == [p2p.tab[c] EXCEPT !.generated = @ + 1]
           p1 == WithTab(p2p, c, t)
           code == candidateCode(t)
       IN  p2p' = IF code # NoCode
                  THEN updateSignalData(p1, c, code,
                           appendCandidate(getSignalData(p1, code),
                                           t.currentRole, <<c, t.generated>>))
                  ELSE p1
    /\ UNCHANGED <<relayVars, aead>>

\* The same handler in a browser that runs the tabs in different processes
\* and does not lock the storage area between the getItem of getSignalData
\* and the setItem of updateSignalData: the read
IceCandidateRead(c) ==
    /\ CanGather(p2p.tab[c])
    /\ candidateCode(p2p.tab[c]) # NoCode
    /\ p2p' = WithTab(p2p, c, [p2p.tab[c] EXCEPT
                  !.generated = @ + 1,
                  !.rmw = getSignalData(p2p, candidateCode(p2p.tab[c]))])
    /\ UNCHANGED <<relayVars, aead>>

\* ... and the write of the record read, with the candidate appended
IceCandidateWrite(c) ==
    /\ p2p.tab[c].rmw # NoSignal
    /\ LET t == p2p.tab[c]
           p1 == WithTab(p2p, c, [t EXCEPT !.rmw = NoSignal])
       IN  p2p' = updateSignalData(p1, c, candidateCode(t),
                      appendCandidate(t.rmw, t.currentRole, <<c, t.generated>>))
    /\ UNCHANGED <<relayVars, aead>>

\* One polling period passes in tab c: every live interval runs its callback
\* (p2p.js:162-165), then the expiry timers that are due run theirs
\* (p2p.js:168-173).
Tick(c) ==
    /\ p2p.tab[c].intervals # {} \/ p2p.tab[c].timeouts # {}
    /\ Len(p2p.tab[c].ops) < MaxOps
    /\ LET p1 == PollAll(p2p, c, p2p.tab[c].intervals)
           t1 == p1.tab[c]
           due == {x \in t1.timeouts : x.left = 1}
           t2 == [t1 EXCEPT
                    !.intervals = {[i EXCEPT !.age = @ + 1] : i \in @},
                    !.timeouts = {[x EXCEPT !.left = @ - 1] : x \in @ \ due}]
       IN  p2p' = WithTab(p1, c, IF due # {} THEN expire(t2) ELSE t2)
    /\ UNCHANGED <<relayVars, aead>>

\* p2p.js handleStorageEvent for a change of p2p_signal_<code> made by
\* another tab, with the record as it is when the event is dispatched; the
\* event of a removal has no newValue and is ignored
HandleStorageEvent(c, code) ==
    /\ code \in p2p.tab[c].events
    /\ Len(p2p.tab[c].ops) < MaxOps
    /\ LET p1 == WithTab(p2p, c, [p2p.tab[c] EXCEPT !.events = @ \ {code}])
       IN  p2p' = IF p2p.store[code] = NoSignal THEN p1
                  ELSE processSignalDataUpdate(p1, c, code, p2p.store[code])
    /\ UNCHANGED <<relayVars, aead>>

\* p2p.js peerConnection.onconnectionstatechange with the new state the
\* browser reports: connected when both ends hold each other's description,
\* disconnected after connected, failed once negotiation has started
ConnectionStateChange(c, state) ==
    /\ LET t == p2p.tab[c]
           o == p2p.tab[t.peer]
       IN  /\ t.peerConnection # "null"
           /\ t.peer # NoPeer
           /\ t.peerConnection # state
           /\ CASE state = "connected" ->
                      /\ t.peerConnection = "new"
                      /\ o.peer = c
                      /\ o.peerConnection \in {"new", "connected"}
                [] state = "disconnected" -> t.peerConnection = "connected"
                [] state = "failed" ->
                      t.peerConnection \in {"new", "connected", "disconnected"}
           /\ p2p' = WithTab(p2p, c,
                  IF state = "connected"
                  THEN [expire(updateP2PStatusDisplay(t, TRUE))
                           EXCEPT !.peerConnection = state]
                  ELSE [updateP2PStatusDisplay(t, FALSE)
                           EXCEPT !.peerConnection = state])
    /\ UNCHANGED <<relayVars, aead>>

\* p2p.js dataChannel.onopen (for the receiver after ondatachannel)
DataChannelOpen(c) ==
    /\ LET t == p2p.tab[c]
       IN  /\ t.peerConnection = "connected"
           /\ \/ t.currentRole = "sender" /\ t.dataChannel = "connecting"
              \/ t.currentRole = "receiver" /\ t.dataChannel = "null"
           /\ LET t1 == updateP2PStatusDisplay([t EXCEPT !.dataChannel = "open"], TRUE)
              IN  p2p' = WithTab(p2p, c,
                     IF t.currentRole = "sender" THEN p2pCheckFileInputState(t1)
                     ELSE t1)
    /\ UNCHANGED <<relayVars, aead>>

\* p2p.js dataChannel.onclose, once the connection is lost or the peer has
\* closed its end, after the messages received before
DataChannelClose(c) ==
    /\ LET t == p2p.tab[c]
       IN  /\ t.dataChannel = "open"
           /\ t.channel = <<>>
           /\ \/ t.peerConnection \in {"disconnected", "failed"}
              \/ p2p.tab[t.peer].peerConnection = "null"
              \/ p2p.tab[t.peer].dataChannel = "closed"
           /\ p2p' = WithTab(p2p, c,
                  [updateP2PStatusDisplay(t, FALSE) EXCEPT
                      !.dataChannel = "closed",
                      !.buffer = <<>>,
                      !.sendBtnDisabled =
                          IF t.currentRole = "sender" THEN TRUE ELSE @])
    /\ UNCHANGED <<relayVars, aead>>

\* ui.js goBack in a tab in P2P mode: the file input is reset, the cards are
\* hidden, closeP2PConnection and closeWebSocket run
GoBackP2P(c) ==
    /\ p2p.tab[c].view # "initialOptions"
    /\ client[c].wsConnection = NoConn
    /\ LET p1 == closeP2PConnection(p2p, c)
       IN  p2p' = WithTab(p1, c, [p1.tab[c] EXCEPT !.view = "initialOptions",
                                                   !.codeShown = FALSE,
                                                   !.fileInput = NoFile])
    /\ UNCHANGED <<relayVars, aead>>

\* state.js resetState in a tab in P2P mode
resetState(t) ==
    [t EXCEPT !.currentRole = "null",
              !.selectedFile = NoFile,
              !.receivedFileName = NoName,
              !.receivedFileBlob = NoBlob]

\* ui.js resetAllForms: the file input is emptied (no change event)
resetAllForms(t) == [t EXCEPT !.fileInput = NoFile]

\* roomJoining.js leaveRoom: the three calls it makes when the promise of a
\* dynamic import is fulfilled.  closeWebSocket, in a tab without a relay
\* connection, is closeP2PConnection.
LeaveSteps == {"closeWebSocket", "resetState", "resetAllForms"}

leaveRoomStep(p, c, step) ==
    CASE step = "closeWebSocket" -> closeP2PConnection(p, c)
      [] step = "resetState" -> WithTab(p, c, resetState(p.tab[c]))
      [] OTHER -> WithTab(p, c, resetAllForms(p.tab[c]))

\* The orders in which the three promises may be fulfilled (the calls are
\* made in the order closeWebSocket, resetState, resetAllForms)
LeaveOrders ==
    {o \in [1..3 -> LeaveSteps] : \A i, j \in 1..3 : i # j => o[i] # o[j]}

\* roomJoining.js leaveRoom in a tab in P2P mode, by the Leave Room button of
\* the file transfer card: the progress bar and the cards are reset at once,
\* and closeWebSocket, resetState and resetAllForms run each in the callback
\* of its own import(), in the given order; nothing else runs in between.
LeaveRoomP2PIn(c, order) ==
    /\ p2p.tab[c].view = "fileTransfer"
    /\ client[c].wsConnection = NoConn
    /\ LET p0 == WithTab(p2p, c, [p2p.tab[c] EXCEPT !.progressBar = 0,
                                                    !.view = "initialOptions"])
           p1 == leaveRoomStep(p0, c, order[1])
           p2 == leaveRoomStep(p1, c, order[2])
       IN  p2p' = leaveRoomStep(p2, c, order[3])
    /\ UNCHANGED <<relayVars, aead>>

LeaveRoomP2P(c) == \E order \in LeaveOrders : LeaveRoomP2PIn(c, order)

\* main.js, ui.js and p2p.js: the change listeners of the file input in a
\* sender tab in P2P mode.  setSelectedFile, then websocket.js
\* checkFileInputState (which without an open WebSocket disables the button
\* unless the direct transport is up), then p2p.js checkFileInputState when
\* isP2PConnected.
SelectFileP2P(c, f) ==
    /\ p2p.tab[c].view = "fileTransfer"
    /\ p2p.tab[c].currentRole = "sender"
    /\ LET t == [p2p.tab[c] EXCEPT !.fileInput = f, !.selectedFile = f]
       IN  p2p' = WithTab(p2p, c,
              IF isP2PConnected(t) THEN p2pCheckFileInputState(t)
              ELSE [t EXCEPT !.sendBtnDisabled =
                       ~(f # NoFile /\ ~isPeerToPeer(t) /\ WsOpen(client[c], conns)
                           /\ ~client[c].transferInProgress)])
    /\ UNCHANGED <<relayVars, aead>>

\* websocket.js sendFile in a tab in P2P mode, by a click on the enabled send
\* button: without a selected file it notifies and returns; with the status
\* text Connected it takes the P2P branch and starts reading the file;
\* otherwise it is in the relay branch, which without an open WebSocket
\* notifies and returns.
SendFileP2PUpTo(c, max) ==
    /\ LET t == p2p.tab[c]
       IN  /\ t.view = "fileTransfer"
           /\ t.currentRole = "sender"
           /\ ~t.sendBtnDisabled
           /\ ~WsOpen(client[c], conns)
           /\ (t.selectedFile # NoFile /\ isPeerToPeer(t)) => t.sends < max
           /\ p2p' = WithTab(p2p, c,
                  IF t.selectedFile = NoFile
                  THEN [t EXCEPT !.notification = "No file selected"]
                  ELSE IF isPeerToPeer(t)
                  THEN [t EXCEPT !.sendBtnDisabled = TRUE,
                                 !.notification = "none",
                                 !.progressBar = 0,
                                 !.sends = @ + 1,
                                 !.sending = Append(@,
                                     [stage |-> "read", next |-> 0, total |-> 0,
                                      data |-> FileBytes(c, t.selectedFile)])]
                  ELSE [t EXCEPT !.notification =
                                     "WebSocket connection not established"])
    /\ UNCHANGED <<relayVars, aead>>

SendFileP2P(c) == SendFileP2PUpTo(c, MaxP2PSends)

\* The size of a message on the data channel: the bytes of a binary message;
\* a JSON text has at least one
ByteLength(m) == IF m.type = "binary" THEN Len(m.data) ELSE 1

\* dataChannel.bufferedAmount: the bytes given to send and not yet
\* transmitted
RECURSIVE bufferedAmount(_)
bufferedAmount(buffer) ==
    IF buffer = <<>> THEN 0
    ELSE ByteLength(Head(buffer)) + bufferedAmount(Tail(buffer))

\* p2p.js sendP2PData(m) in tab c returns true: the data channel is open,
\* and the buffer is not over its limit when m is an ArrayBuffer longer than
\* one P2P chunk (ChunkSize stands for the 16 * 1024 of both sendFile and
\* sendP2PData, BufferLimit for 16777216)
canSendP2PData(p, c, m) ==
    LET t == p.tab[c]
    IN  /\ t.dataChannel = "open"
        /\ ~(/\ m.type = "binary"
              /\ Len(m.data) > ChunkSize
              /\ bufferedAmount(t.buffer) > BufferLimit)

\* p2p.js sendP2PData(m) from tab c, accepted: dataChannel.send(m)
sendP2PData(p, c, m) == [p EXCEPT !.tab[c].buffer = Append(@, m)]

\* The data channel of tab c transmits the oldest message of its buffer to
\* the peer connection at the other end, in order and without loss
Transmit(c) ==
    /\ LET t == p2p.tab[c]
       IN  /\ t.buffer # <<>>
           /\ t.dataChannel = "open"
           /\ t.peer # NoPeer
           /\ p2p.tab[t.peer].peer = c
           /\ p2p.tab[t.peer].peerConnection = "connected"
           /\ p2p.tab[t.peer].dataChannel \in {"null", "open"}
           /\ p2p' = [p2p EXCEPT !.tab[c].buffer = Tail(@),
                                 !.tab[t.peer].channel = Append(@, Head(t.buffer))]
    /\ UNCHANGED <<relayVars, aead>>

\* websocket.js sendFile, P2P branch: reader.onload of the i-th running
\* call.  The metadata, which names the file selected now, is sent; when the
\* channel refuses it the error is notified and the button enabled.
ReaderOnloadP2P(c, i) ==
    /\ LET t == p2p.tab[c]
           metadata == [type |-> "file_metadata",
                        name |-> FileName(c, t.selectedFile),
                        size |-> t.selectedFile]
       IN  /\ i \in 1..Len(t.sending)
           /\ t.sending[i].stage = "read"
           /\ p2p' =
                IF canSendP2PData(p2p, c, metadata)
                THEN sendP2PData(
                       WithTab(p2p, c, [t EXCEPT !.progressBar = 5, !.sending[i] =
                          [stage |-> "chunks", next |-> 0,
                           total |-> CeilDiv(Len(t.sending[i].data), ChunkSize),
                           data |-> t.sending[i].data]]),
                       c, metadata)
                ELSE WithTab(p2p, c, [t EXCEPT !.sending = RemoveAt(@, i),
                                               !.progressBar = 5,
                                               !.sendBtnDisabled = FALSE,
                                               !.notification = "Error sending file"])
    /\ UNCHANGED <<relayVars, aead>>

\* websocket.js sendFile, P2P branch: sendNextChunk.  After the last chunk
\* it notifies and the button is enabled again; when the channel refuses the
\* chunk metadata or the chunk, the same chunk is tried again later.
SendNextChunk(c, i) ==
    /\ i \in 1..Len(p2p.tab[c].sending)
    /\ LET t == p2p.tab[c]
           s == t.sending[i]
           start == s.next * ChunkSize
           chunkMetadata == [type |-> "file_chunk", chunk_index |-> s.next,
                             total_chunks |-> s.total]
           chunk == [type |-> "binary",
                     data |-> Slice(s.data, start, start + ChunkSize)]
           p1 == sendP2PData(p2p, c, chunkMetadata)
       IN  /\ s.stage = "chunks"
           /\ p2p' =
                IF s.next >= s.total
                THEN WithTab(p2p, c, [t EXCEPT !.sending = RemoveAt(@, i),
                                               !.progressBar = 100,
                                               !.sendBtnDisabled = FALSE,
                                               !.notification =
                                                   "File sent successfully"])
                ELSE IF ~canSendP2PData(p2p, c, chunkMetadata) THEN p2p
                ELSE IF ~canSendP2PData(p1, c, chunk) THEN p1
                ELSE [sendP2PData(p1, c, chunk)
                         EXCEPT !.tab[c].sending[i].next = @ + 1,
                                !.tab[c].progressBar =
                                    P2PProgress(s.next + 1, s.total)]
    /\ UNCHANGED <<relayVars, aead>>

\* websocket.js window.handleP2PMessage for the next message of the channel,
\* called by the onmessage handler of the data channel
HandleP2PMessage(c) ==
    /\ LET t == p2p.tab[c]
           m == Head(t.channel)
           pm == t.pendingP2PFileMetadata
           t1 == [t EXCEPT !.channel = Tail(@)]
       IN  /\ t.channel # <<>>
           /\ t.dataChannel = "open"
           /\ p2p' = WithTab(p2p, c,
                CASE m.type = "file_metadata" ->
                       [t1 EXCEPT !.progressBar = 5,
                                  !.pendingP2PFileMetadata =
                           [null |-> FALSE, name |-> m.name, chunks |-> <<>>,
                            totalChunks |-> -1]]
                  [] m.type = "file_chunk" ->
                       IF pm.null \/ m.chunk_index # 0 THEN t1
                       ELSE [t1 EXCEPT !.pendingP2PFileMetadata.totalChunks =
                                           m.total_chunks]
                  [] m.type = "binary" ->
                       IF pm.null THEN t1
                       ELSE IF Len(pm.chunks) + 1 = pm.totalChunks
                       THEN [t1 EXCEPT
                               !.receivedFileBlob =
                                   [null |-> FALSE, bytes |-> pm.chunks \o m.data],
                               !.receivedFileName = pm.name,
                               !.progressBar = 100,
                               !.pendingP2PFileMetadata = NoPending]
                       ELSE [t1 EXCEPT !.pendingP2PFileMetadata.chunks = @ \o m.data,
                                       !.progressBar =
                                           P2PProgress(Len(pm.chunks) + 1,
                                                       pm.totalChunks)])
    /\ UNCHANGED <<relayVars, aead>>

\* ------------------------------------------------------------------ Next
\* One relay session with file transfers: the creating tab continues as
\* sender, the other tab joins and receives; nobody leaves.
Next ==
    \/ \E c \in Creators, n \in 0..MaxCapacity, face \in BOOLEAN :
           Cardinality(issued) < MaxRooms /\ CreateRoom(c, n, face)
    \/ \E c \in Clients : ContinueAsSender(c)
    \/ \E c \in Joiners : ShowJoinRoomOptions(c)
    \/ \E c \in Clients, k \in Keys : JoinRoomWithKey(c, k, TRUE)
    \/ \E c \in Clients : JoinRoomContinue(c)
    \/ \E c \in Clients, f \in FileSizes : SelectFile(c, f)
    \/ \E c \in Clients : SendFile(c, "none")
    \/ \E c \in Clients, i \in 1..MaxReaders : ReaderOnload(c, i)
    \/ \E id \in ConnIds : ClientReceive(id)
    \/ \E id \in ConnIds : ServerJoin(id)
    \/ \E id \in ConnIds : ServerReceive(id)

Spec == Init /\ [][Next]_vars

\* Membership of one room: every tab may join and leave; no file is sent.
NextRoom ==
    \/ \E c \in Creators, n \in 0..MaxCapacity :
           Cardinality(issued) < MaxRooms /\ CreateRoom(c, n, FALSE)
    \/ \E c \in Clients : ContinueAsSender(c)
    \/ \E c \in Clients : ShowJoinRoomOptions(c)
    \/ \E c \in Clients, k \in Keys, ok \in BOOLEAN : JoinRoomWithKey(c, k, ok)
    \/ \E c \in Clients : JoinRoomContinue(c)
    \/ \E c \in Clients : LeaveRoom(c)
    \/ \E c \in Clients : CapacityTimeout(c)
    \/ \E id \in ConnIds : ClientReceive(id)
    \/ \E id \in ConnIds : ServerJoin(id)
    \/ \E id \in ConnIds : ServerLeave(id)
    \/ \E k \in Keys : ExpireRoom(k)

SpecRoom == Init /\ [][NextRoom]_vars

\* A sender that leaves and comes back while one-chunk files are sent
NextReconnect ==
    \/ \E c \in Creators, face \in BOOLEAN : CreateRoom(c, MaxCapacity, face)
    \/ \E c \in Clients : ContinueAsSender(c)
    \/ \E c \in Creators : LeaveRoom(c)
    \/ \E c \in Joiners : ShowJoinRoomOptions(c)
    \/ \E c \in Clients, k \in Keys : JoinRoomWithKey(c, k, TRUE)
    \/ \E c \in Clients : JoinRoomContinue(c)
    \/ \E c \in Clients : SelectFile(c, ChunkSize)
    \/ \E c \in Clients : SendFile(c, "none")
    \/ \E c \in Clients, i \in 1..MaxReaders : ReaderOnload(c, i)
    \/ \E id \in ConnIds : ClientReceive(id)
    \/ \E id \in ConnIds : ServerJoin(id)
    \/ \E id \in ConnIds : ServerReceive(id)
    \/ \E id \in ConnIds : ServerLeave(id)

SpecReconnect == Init /\ [][NextReconnect]_vars

\* One relay session in which one-chunk files are sent with any encryption
\* method, the receiver decrypts, and the events of a transfer may reach the
\* receiver in any order.
NextRecv ==
    \/ \E c \in Creators :
           Cardinality(issued) < MaxRooms /\ CreateRoom(c, MaxCapacity, FALSE)
    \/ \E c \in Clients : ContinueAsSender(c)
    \/ \E c \in Joiners : ShowJoinRoomOptions(c)
    \/ \E c \in Clients, k \in Keys : JoinRoomWithKey(c, k, TRUE)
    \/ \E c \in Clients : JoinRoomContinue(c)
    \/ \E c \in Clients : SelectFile(c, ChunkSize)
    \/ \E c \in Clients, m \in Methods : SendFile(c, m)
    \/ \E c \in Clients, i \in 1..MaxReaders : ReaderOnload(c, i)
    \/ \E c \in Clients, i \in 1..MaxSends, ok \in BOOLEAN :
           ProcessEncryptedFileStep(c, i, ok)
    \/ \E id \in ConnIds : ClientReceive(id)
    \/ \E id \in ConnIds, j \in 1..MaxInbox : Reorder(id, j)
    \/ \E id \in ConnIds : ServerJoin(id)
    \/ \E id \in ConnIds : ServerReceive(id)

SpecRecv == Init /\ [][NextRecv]_vars

\* Every way into a room as receiver: the typed key (which the face
\* verification list also uses: faceAuth.js joinRoomWithFaceAuth fills the
\* secretKey field and calls joinRoomWithKey), the key of the URL, the key
\* extracted from an invitation text and the key extracted from an image.
NextJoin ==
    \/ \E c \in Creators :
           Cardinality(issued) < MaxRooms /\ CreateRoom(c, MaxCapacity, FALSE)
    \/ \E c \in Clients : ContinueAsSender(c)
    \/ \E c \in Joiners : ShowJoinRoomOptions(c)
    \/ \E c \in Joiners, k \in Keys, ok \in BOOLEAN : JoinRoomWithKey(c, k, ok)
    \/ \E c \in Joiners, k \in Keys, ok \in BOOLEAN : AutoJoinWithKey(c, k, ok)
    \/ \E c \in Clients : JoinRoomContinue(c)
    \/ \E c \in Joiners, k \in Keys, ok \in BOOLEAN : ExtractKeyAndJoin(c, k, ok)
    \/ \E c \in Joiners, k \in Keys, ok \in BOOLEAN :
           ExtractKeyFromImageAndJoin(c, k, ok)
    \/ \E c \in Clients : LeaveRoom(c)
    \/ \E id \in ConnIds : ClientReceive(id)
    \/ \E id \in ConnIds : ServerJoin(id)
    \/ \E id \in ConnIds : ServerLeave(id)
    \/ \E k \in Keys : ExpireRoom(k)

SpecJoin == Init /\ [][NextJoin]_vars

\* check_room called at any time: the second tab joins, leaves and looks the
\* room up again while the first sends one-chunk files.
NextLookup ==
    \/ \E c \in Creators :
           Cardinality(issued) < MaxRooms /\ CreateRoom(c, MaxCapacity, FALSE)
    \/ \E c \in Creators : ContinueAsSender(c)
    \/ \E c \in Joiners : ShowJoinRoomOptions(c)
    \/ \E c \in Joiners, k \in Keys : JoinRoomWithKey(c, k, TRUE)
    \/ \E c \in Joiners, k \in Keys : AutoJoinWithKey(c, k, TRUE)
    \/ \E c \in Clients : JoinRoomContinue(c)
    \/ \E c \in Joiners : LeaveRoom(c)
    \/ \E c \in Creators : SelectFile(c, ChunkSize)
    \/ \E c \in Creators : SendFile(c, "none")
    \/ \E c \in Creators, i \in 1..MaxReaders : ReaderOnload(c, i)
    \/ \E id \in ConnIds : ClientReceive(id)
    \/ \E id \in ConnIds : ServerJoin(id)
    \/ \E id \in ConnIds : ServerReceive(id)
    \/ \E id \in ConnIds : ServerLeave(id)

SpecLookup == Init /\ [][NextLookup]_vars

\* Tabs in P2P mode: the first as sender, whose code is the first code every
\* time, the second as receiver, who may type any code; up to the click on
\* the send button.
NextP2P ==
    \/ \E c \in Clients : ShowP2POptions(c)
    \/ \E c \in Creators : SelectP2PRole(c, "sender", 1)
    \/ \E c \in Joiners : SelectP2PRole(c, "receiver", NoCode)
    \/ \E c \in Clients : CreateOffer(c)
    \/ \E c \in Clients, code \in Codes : ValidateConnectionCode(c, code)
    \/ \E c \in Clients : SetRemoteDescriptionDone(c)
    \/ \E c \in Clients : Tick(c)
    \/ \E c \in Clients, code \in Codes : HandleStorageEvent(c, code)
    \/ \E c \in Clients, state \in {"connected", "disconnected", "failed"} :
           ConnectionStateChange(c, state)
    \/ \E c \in Clients : DataChannelOpen(c)
    \/ \E c \in Clients : DataChannelClose(c)
    \/ \E c \in Clients : GoBackP2P(c)
    \/ \E c \in Clients : SelectFileP2P(c, ChunkSize)
    \/ \E c \in Clients : SendFileP2P(c)

SpecP2P == Init /\ [][NextP2P]_vars

\* One file transfer on the data channel of a pair of tabs in P2P mode that
\* stay in it: files of every size; the sender's code is the first code, the
\* receiver types it, and the pair is through with the signaling before a
\* polling period has passed.
NextP2PSend ==
    \/ \E c \in Clients : ShowP2POptions(c)
    \/ \E c \in Creators : SelectP2PRole(c, "sender", 1)
    \/ \E c \in Joiners : SelectP2PRole(c, "receiver", NoCode)
    \/ \E c \in Clients : CreateOffer(c)
    \/ \E c \in Clients : ValidateConnectionCode(c, 1)
    \/ \E c \in Clients : SetRemoteDescriptionDone(c)
    \/ \E c \in Clients : HandleStorageEvent(c, 1)
    \/ \E c \in Clients, state \in {"connected", "disconnected", "failed"} :
           ConnectionStateChange(c, state)
    \/ \E c \in Clients : DataChannelOpen(c)
    \/ \E c \in Clients : DataChannelClose(c)
    \/ \E c \in Clients, f \in FileSizes :
           p2p.tab[c].sending = NoSending /\ SelectFileP2P(c, f)
    \/ \E c \in Clients : SendFileP2P(c)
    \/ \E c \in Clients, i \in 1..MaxP2PCalls : ReaderOnloadP2P(c, i)
    \/ \E c \in Clients, i \in 1..MaxP2PCalls : SendNextChunk(c, i)
    \/ \E c \in Clients : Transmit(c)
    \/ \E c \in Clients : HandleP2PMessage(c)

SpecP2PSend == Init /\ [][NextP2PSend]_vars

\* A pair of tabs in P2P mode over a direct transport that stays up: the
\* sender sends up to MaxP2PCalls times, first the largest file and after
\* every send it has started the next smaller one.
NextP2PTwo ==
    \/ \E c \in Clients : ShowP2POptions(c)
    \/ \E c \in Creators : SelectP2PRole(c, "sender", 1)
    \/ \E c \in Joiners : SelectP2PRole(c, "receiver", NoCode)
    \/ \E c \in Clients : CreateOffer(c)
    \/ \E c \in Clients : ValidateConnectionCode(c, 1)
    \/ \E c \in Clients : SetRemoteDescriptionDone(c)
    \/ \E c \in Clients : HandleStorageEvent(c, 1)
    \/ \E c \in Clients : ConnectionStateChange(c, "connected")
    \/ \E c \in Clients : DataChannelOpen(c)
    \/ \E c \in Clients, f \in 1..MaxFileSize :
           f = MaxFileSize - p2p.tab[c].sends /\ SelectFileP2P(c, f)
    \/ \E c \in Clients : SendFileP2PUpTo(c, MaxP2PCalls)
    \/ \E c \in Clients, i \in 1..MaxP2PCalls : ReaderOnloadP2P(c, i)
    \/ \E c \in Clients, i \in 1..MaxP2PCalls : SendNextChunk(c, i)
    \/ \E c \in Clients : Transmit(c)
    \/ \E c \in Clients : HandleP2PMessage(c)

SpecP2PTwo == Init /\ [][NextP2PTwo]_vars

\* The same session with a sender that starts the next transfer only after
\* its previous sendFile call has ended
NextP2PSeq ==
    \/ \E c \in Clients : ShowP2POptions(c)
    \/ \E c \in Creators : SelectP2PRole(c, "sender", 1)
    \/ \E c \in Joiners : SelectP2PRole(c, "receiver", NoCode)
    \/ \E c \in Clients : CreateOffer(c)
    \/ \E c \in Clients : ValidateConnectionCode(c, 1)
    \/ \E c \in Clients : SetRemoteDescriptionDone(c)
    \/ \E c \in Clients : HandleStorageEvent(c, 1)
    \/ \E c \in Clients : ConnectionStateChange(c, "connected")
    \/ \E c \in Clients : DataChannelOpen(c)
    \/ \E c \in Clients, f \in 1..MaxFileSize :
           f = MaxFileSize - p2p.tab[c].sends /\ SelectFileP2P(c, f)
    \/ \E c \in Clients :
           p2p.tab[c].sending = NoSending /\ SendFileP2PUpTo(c, MaxP2PCalls)
    \/ \E c \in Clients, i \in 1..MaxP2PCalls : ReaderOnloadP2P(c, i)
    \/ \E c \in Clients, i \in 1..MaxP2PCalls : SendNextChunk(c, i)
    \/ \E c \in Clients : Transmit(c)
    \/ \E c \in Clients : HandleP2PMessage(c)

SpecP2PSeq == Init /\ [][NextP2PSeq]_vars

\* The signaling exchange of a pair of tabs in P2P mode, with the ICE
\* candidates of both; the sender may go back and start again.
NextSignal ==
    \/ \E c \in Clients : ShowP2POptions(c)
    \/ \E c \in Creators, code \in Codes : SelectP2PRole(c, "sender", code)
    \/ \E c \in Joiners : SelectP2PRole(c, "receiver", NoCode)
    \/ \E c \in Clients : CreateOffer(c)
    \/ \E c \in Clients, code \in Codes : ValidateConnectionCode(c, code)
    \/ \E c \in Clients : SetRemoteDescriptionDone(c)
    \/ \E c \in Clients : IceCandidate(c)
    \/ \E c \in Clients : Tick(c)
    \/ \E c \in Clients, code \in Codes : HandleStorageEvent(c, code)
    \/ \E c \in Clients : ConnectionStateChange(c, "connected")
    \/ \E c \in Creators : GoBackP2P(c)

SpecSignal == Init /\ [][NextSignal]_vars

\* A pair of tabs in P2P mode that exchange their signaling, select files and
\* leave with the Leave Room button; the sender's code is the first code
NextLeave ==
    \/ \E c \in Clients : ShowP2POptions(c)
    \/ \E c \in Creators : SelectP2PRole(c, "sender", 1)
    \/ \E c \in Joiners : SelectP2PRole(c, "receiver", NoCode)
    \/ \E c \in Clients : CreateOffer(c)
    \/ \E c \in Clients, code \in Codes : ValidateConnectionCode(c, code)
    \/ \E c \in Clients : SetRemoteDescriptionDone(c)
    \/ \E c \in Clients : Tick(c)
    \/ \E c \in Clients, code \in Codes : HandleStorageEvent(c, code)
    \/ \E c \in Clients : ConnectionStateChange(c, "connected")
    \/ \E c \in Clients : DataChannelOpen(c)
    \/ \E c \in Clients : SelectFileP2P(c, ChunkSize)
    \/ \E c \in Clients : LeaveRoomP2P(c)

SpecLeave == Init /\ [][NextLeave]_vars

\* No handler of tab c is between its getItem and its setItem: a tab runs
\* one handler at a time
Idle(c) == p2p.tab[c].rmw = NoSignal

\* The signaling exchange of a pair of tabs that the browser runs in two
\* processes: between the read and the write of the record in
\* onicecandidate the other tab may run.
NextStore ==
    \/ \E c \in Clients : Idle(c) /\ ShowP2POptions(c)
    \/ \E c \in Creators : Idle(c) /\ SelectP2PRole(c, "sender", 1)
    \/ \E c \in Joiners : Idle(c) /\ SelectP2PRole(c, "receiver", NoCode)
    \/ \E c \in Clients : Idle(c) /\ CreateOffer(c)
    \/ \E c \in Clients, code \in Codes :
           Idle(c) /\ ValidateConnectionCode(c, code)
    \/ \E c \in Clients : Idle(c) /\ SetRemoteDescriptionDone(c)
    \/ \E c \in Clients : IceCandidateRead(c)
    \/ \E c \in Clients : IceCandidateWrite(c)
    \/ \E c \in Clients : Idle(c) /\ Tick(c)
    \/ \E c \in Clients, code \in Codes : Idle(c) /\ HandleStorageEvent(c, code)
    \/ \E c \in Clients : Idle(c) /\ ConnectionStateChange(c, "connected")

SpecStore == Init /\ [][NextStore]_vars

\* One payload through the encryption envelope.
NextAead ==
    \/ Seal
    \/ \E i \in 1..(MaxPayload + TagLen), b \in PlainBytes : TamperCiphertext(i, b)
    \/ TamperKey
    \/ Open
    \/ \E i \in 1..MaxPayload, b \in PlainBytes : TamperPlaintext(i, b)
    \/ VerifyIntegrity

SpecAead == InitAead /\ [][NextAead]_vars

\* ------------------------------------------------------------- properties
\* The file a byte belongs to
FileOf(byte) == <<byte[1], byte[2]>>

\* C1: at most one transfer is in flight per room and the chunks of two
\* different transfers are never interleaved towards the receivers: the room
\* has an owner exactly while it is transferring, and what a receiver holds
\* after the transfer_start of a file consists of bytes of that file only.
C1_NoInterleaving ==
    /\ \A k \in Keys : rooms[k].transferring <=> rooms[k].owner # NoConn
    /\ \A c \in Clients :
         LET s == client[c]
         IN  (s.currentRole = "receiver" /\ s.receivedFileName # NoName
                 /\ ~s.receivedFileBlob.null)
             => \A i \in 1..Len(s.receivedFileBlob.bytes) :
                  FileOf(s.receivedFileBlob.bytes[i]) = s.receivedFileName

\* C8: a sender tab issues start_transfer only when the last room_status it
\* received reported at least one receiver and ready_to_transfer = true, and
\* no transfer of its own is in progress.
C8_SendOnlyWhenReady ==
    [][\A c \in Clients :
         clicks'[c].sends > clicks[c].sends
         => /\ lastStatus[c].type = "room_status"
            /\ lastStatus[c].receivers >= 1
            /\ lastStatus[c].ready_to_transfer
            /\ ~client[c].transferInProgress]_vars

\* C9: chunk reassembly round trip over the relay: when the only file ever
\* sent in the session has been transferred and is offered for download, the
\* receiver holds exactly the bytes of the source file.
C9_RelayRoundTrip ==
    \A c \in Clients :
      LET s == client[c]
          name == s.receivedFileName
      IN  (s.currentRole = "receiver" /\ s.downloadBtn /\ name # NoName
              /\ \A t \in Clients : clicks[t].sends = IF t = name[1] THEN 1 ELSE 0)
          => s.receivedFileBlob = Blob(FileBytes(name[1], name[2]))

\* ---------------------------------------------------------------- capacity
\* C3: a receiver's join succeeds if and only if max_receivers is 0 or the
\* receiver count is strictly below max_receivers when the server handles the
\* join; an admitted receiver is added to the set, a refused one changes
\* nothing and (unless it has closed its connection already) is told 'maximum
\* capacity', and a capped room never holds more than max_receivers receivers.
C3_ReceiverJoinIffCapacity ==
    [][/\ \A id \in ConnIds :
            ( /\ conns[id].srv = "pending" /\ conns'[id].srv # "pending"
              /\ conns[id].role = "receiver"
              /\ conns[id].key # NoKey /\ rooms[conns[id].key].exists )
            => LET room == rooms[conns[id].key]
                   after == rooms'[conns[id].key]
                   free == \/ room.max_receivers = 0
                           \/ Cardinality(room.receivers) < room.max_receivers
               IN  /\ conns'[id].srv = "joined" <=> free
                   /\ free => after.receivers = room.receivers \cup {id}
                   /\ ~free => /\ conns'[id].srv = "full"
                               /\ after = room
                               /\ conns[id].readyState # "CLOSED"
                                  => \E j \in 1..Len(inbox'[id]) :
                                       inbox'[id][j] = ErrorMsg("maximum capacity")
       /\ \A k \in Keys :
            rooms'[k].max_receivers > 0
            => Cardinality(rooms'[k].receivers) <= rooms'[k].max_receivers]_vars

\* The second receiver of a full max_receivers = 1 room has just been refused.
C3_Witness ==
    \E k \in Keys, id \in ConnIds :
        /\ rooms[k].exists /\ rooms[k].max_receivers = 1
        /\ Cardinality(rooms[k].receivers) = 1
        /\ conns[id].key = k /\ conns[id].role = "receiver" /\ conns[id].srv = "full"
        /\ Len(inbox[id]) = 3 /\ inbox[id][2] = ErrorMsg("maximum capacity")

\* C4: a join refused for capacity leaves the room and every other connection
\* as they were; the dispatch of the 'maximum capacity' error arms the
\* redirect, and when the redirect runs the tab has no connection that is open
\* or connecting and, if it is still in the receiver role, shows the join
\* screen instead of the transfer screen.
C4_CapacityRejectFrame ==
    [][/\ \A id \in ConnIds :
            (conns[id].srv = "pending" /\ conns'[id].srv = "full")
            => /\ rooms' = rooms
               /\ \A j \in ConnIds \ {id} : conns'[j] = conns[j] /\ inbox'[j] = inbox[j]
       /\ \A c \in Clients :
            /\ ( \E id \in ConnIds :
                    /\ conns[id].client = c /\ conns[id].srv = "full"
                    /\ inbox[id] # <<>> /\ Head(inbox[id]).type = "error"
                    /\ inbox'[id] = Tail(inbox[id]) )
               => client'[c].capacityTimers = client[c].capacityTimers + 1
            /\ client'[c].capacityTimers < client[c].capacityTimers
               => /\ client'[c].wsConnection = NoConn
                  /\ \A id \in ConnIds :
                       conns'[id].client = c
                       => conns'[id].readyState \notin {"CONNECTING", "OPEN"}
                  /\ client[c].currentRole = "receiver"
                     => /\ "joinRoomOptions" \in client'[c].shown
                        /\ "fileTransfer" \notin client'[c].shown]_vars

\* The refused receiver is back on the join screen without a connection while
\* the receiver that was there first is still connected to the unchanged room.
C4_Witness ==
    \E k \in Keys, id \in ConnIds, other \in ConnIds :
        LET c == conns[id].client
        IN  /\ conns[id].key = k /\ conns[id].srv = "full"
            /\ conns[id].readyState = "CLOSED"
            /\ client[c].currentRole = "receiver"
            /\ client[c].wsConnection = NoConn
            /\ client[c].capacityTimers = 0
            /\ "joinRoomOptions" \in client[c].shown
            /\ "fileTransfer" \notin client[c].shown
            /\ rooms[k].receivers = {other}
            /\ conns[other].readyState = "OPEN"
            /\ lastStatus[conns[other].client].receivers = 1

UpToDate(cl, cn, inb, c) ==
    LET id == cl[c].wsConnection
    IN  /\ id # NoConn
        /\ cn[id].srv = "joined"
        /\ cn[id].readyState = "OPEN"
        /\ \A j \in 1..Len(inb[id]) : inb[id][j].type # "room_status"

\* C6: every room_status the server sends carries ready_to_transfer equal to
\* (senders > 0 and receivers > 0 and no transfer in progress) of the room at
\* the time of the broadcast; and once a sender and a receiver are connected
\* to a max_receivers = 1 room in which no transfer was started, both have
\* received room_status {senders: 1, receivers: 1, ready_to_transfer: true}.
C6_ReadyToTransferOfStatus ==
    [][/\ \A i \in ConnIds :
            ( /\ Len(inbox'[i]) > Len(inbox[i])
              /\ inbox'[i][Len(inbox'[i])].type = "room_status" )
            => LET room == rooms'[conns'[i].key]
               IN  inbox'[i][Len(inbox'[i])].ready_to_transfer
                   <=> ( /\ room.senders # {}
                         /\ room.receivers # {}
                         /\ ~room.transferring )
       /\ \A k \in Keys, a \in Clients, b \in Clients :
            ( /\ rooms'[k].max_receivers = 1
              /\ rooms'[k].senders = {client'[a].wsConnection}
              /\ rooms'[k].receivers = {client'[b].wsConnection}
              /\ \A t \in Clients : clicks'[t].sends = 0
              /\ UpToDate(client', conns', inbox', a)
              /\ UpToDate(client', conns', inbox', b) )
            => \A t \in {a, b} :
                 lastStatus'[t] = [type |-> "room_status", senders |-> 1,
                                   receivers |-> 1, ready_to_transfer |-> TRUE]]_vars

\* Scenario A: sender and receiver of a max_receivers = 1 room have both been
\* told {1, 1, true}.
C6_Witness ==
    \E k \in Keys, a \in Clients, b \in Clients :
        /\ rooms[k].max_receivers = 1
        /\ rooms[k].senders = {client[a].wsConnection}
        /\ rooms[k].receivers = {client[b].wsConnection}
        /\ \A t \in {a, b} :
             lastStatus[t] = [type |-> "room_status", senders |-> 1,
                              receivers |-> 1, ready_to_transfer |-> TRUE]

\* C7: every connect and disconnect the server handles changes the room's
\* sets and puts, as the last event towards every remaining member, a
\* room_status whose counts are the sizes of the sets after the change; a tab
\* that has dispatched everything sent to it holds the counts of the room as
\* it is.
C7_StatusFollowsMembership ==
    [][/\ \A k \in Keys :
            ( \/ rooms'[k].senders # rooms[k].senders
              \/ rooms'[k].receivers # rooms[k].receivers )
            => \A i \in Members(rooms'[k]) :
                 conns'[i].readyState # "CLOSED"
                 => /\ inbox'[i] # <<>>
                    /\ LET m == inbox'[i][Len(inbox'[i])]
                       IN  /\ m.type = "room_status"
                           /\ m.senders = Cardinality(rooms'[k].senders)
                           /\ m.receivers = Cardinality(rooms'[k].receivers)
       /\ \A id \in ConnIds :
            /\ (conns[id].srv = "pending" /\ conns'[id].srv = "joined")
               => id \in (IF conns[id].role = "sender"
                          THEN rooms'[conns[id].key].senders
                          ELSE rooms'[conns[id].key].receivers)
            /\ (conns[id].srv = "joined" /\ conns'[id].srv = "done")
               => id \notin Members(rooms'[conns[id].key])
       /\ \A c \in Clients :
            UpToDate(client', conns', inbox', c)
            => LET room == rooms'[conns'[client'[c].wsConnection].key]
               IN  /\ lastStatus'[c].type = "room_status"
                   /\ lastStatus'[c].senders = Cardinality(room.senders)
                   /\ lastStatus'[c].receivers = Cardinality(room.receivers)]_vars

\* A receiver has come and gone, and the sender that stayed has been told so.
C7_Witness ==
    \E c \in Clients, id \in ConnIds :
        /\ conns[id].role = "receiver" /\ conns[id].srv = "done"
        /\ client[c].currentRole = "sender"
        /\ UpToDate(client, conns, inbox, c)
        /\ conns[client[c].wsConnection].key = conns[id].key
        /\ inbox[client[c].wsConnection] = <<>>
        /\ lastStatus[c] = [type |-> "room_status", senders |-> 1,
                            receivers |-> 0, ready_to_transfer |-> FALSE]

\* ------------------------------------------------- rejected start_transfer
\* C2: a start_transfer that arrives during a transfer is rejected and leaves
\* that transfer unaffected: while the transfer that caused the rejection is
\* in progress, the chunk sequence on its way to the room's receivers holds no
\* frame of the connection whose start_transfer was rejected.
C2_RejectedStartLeavesTransferUnaffected ==
    \A k \in Keys :
      rooms[k].transferring
      => \A i \in rooms[k].receivers :
           \A j \in 1..Len(inbox[i]) :
             inbox[i][j].type = "binary"
             => conns[inbox[i][j].from].rejectedBy # rooms[k].owner

HasKey(m) ==
    /\ ~m.null
    /\ \/ m.method = "aes-256-gcm" /\ m.aes_key # 0
       \/ m.method = "chacha20-poly1305" /\ m.chacha_key # 0

\* transfer_complete is dispatched to receiver tab c in this step
CompleteDispatched(c) ==
    /\ client[c].currentRole = "receiver"
    /\ \E id \in ConnIds :
         /\ conns[id].client = c
         /\ inbox[id] # <<>>
         /\ Head(inbox[id]).type = "transfer_complete"
         /\ inbox'[id] = Tail(inbox[id])

C11_AesRoundTrip ==
    (/\ aead.phase = "opened"
     /\ aead.method = "aes-256-gcm"
     /\ aead.tampered = "none")
        => (aead.ok /\ aead.out = aead.plain)

\* A payload longer than a chunk whose ciphertext travelled with the tag
\* appended has been opened by the second attempt of decryptFileWithAES.
C11_Witness ==
    /\ aead.phase = "opened"
    /\ aead.method = "aes-256-gcm"
    /\ aead.tampered = "none"
    /\ aead.layout = "concatenated"
    /\ Len(aead.plain) > ChunkSize
    /\ aead.ok
    /\ aead.out = aead.plain

C12_PlaintextCase ==
    /\ aead.phase = "verified"
    /\ aead.tampered = "plaintext"
    /\ ~aead.integrity

\* The bytes of the files the tabs can select, as they are before any
\* encryption.
PlainFileBytes == {<<c, f, i>> : c \in Clients, f \in FileSizes, i \in 1..MaxFileSize}

IsPlaintext(data) == \A n \in 1..Len(data) : data[n] \in PlainFileBytes

\* C13: in a transfer whose encryption method is aes-256-gcm or
\* chacha20-poly1305 no chunk is put on the transport as plaintext: a binary
\* frame that a sender in a room that is ready to transfer has put on its
\* connection behind a start_transfer naming such a method does not carry
\* bytes of the file as they are.
C13_NoPlaintextOnTransport ==
    \A id \in ConnIds : \A i, j \in 1..Len(outbox[id]) :
        (/\ i < j
         /\ conns[id].role = "sender"
         /\ lastStatus[conns[id].client].ready_to_transfer
         /\ outbox[id][i].type = "start_transfer"
         /\ outbox[id][i].method # "none"
         /\ outbox[id][j].type = "binary"
         /\ \A m \in (i + 1)..(j - 1) : outbox[id][m].type # "start_transfer")
            => ~IsPlaintext(outbox[id][j].data)

\* C14: every chunk the relay passes on to the receivers of a room is a chunk
\* of the transfer in progress there: transfer_start of that transfer has gone
\* to the receivers before, the chunk comes from the connection that owns the
\* transfer and carries bytes of the file that transfer_start named, and
\* transfer_complete has not been sent yet.
C14_ChunksWithinTransfer ==
    [][\A id \in ConnIds :
          (/\ ServerReceive(id)
           /\ Head(outbox[id]).type = "binary"
           /\ rooms[conns[id].key].receivers # {})
             => LET room == rooms[conns[id].key]
                    data == Head(outbox[id]).data
                IN  /\ room.transferring
                    /\ room.owner = id
                    /\ \A n \in 1..Len(data) : FileOf(data[n]) = room.filename]_vars

\* C15: after transfer_complete the room is open and ready again.  (1) The
\* step of the relay that ends a transfer leaves the room in the registry with
\* the same senders and receivers and not transferring, so that it is ready
\* to transfer whenever a sender and a receiver are present.  (2) A sender tab
\* that is handed transfer_complete has its transfer-in-progress flag cleared.
\* (3) A start_transfer that a sender's connection sends to a room that is
\* ready is accepted, whether or not transfers were completed there before:
\* the room is transferring, owned by that connection, and transfer_start is
\* queued for every receiver.
C15_ReadyAgainAfterComplete ==
    [][\A id \in ConnIds :
          LET k    == conns[id].key
              room == rooms[k]
          IN  /\ (/\ ServerReceive(id)
                  /\ room.transferring
                  /\ ~rooms'[k].transferring)
                    => /\ rooms'[k].exists
                       /\ rooms'[k].senders = room.senders
                       /\ rooms'[k].receivers = room.receivers
                       /\ (room.senders # {} /\ room.receivers # {})
                             => ReadyToTransfer(rooms'[k])
              /\ (/\ ClientReceive(id)
                  /\ Head(inbox[id]).type = "transfer_complete")
                    => ~client'[conns[id].client].transferInProgress
              /\ (/\ ServerReceive(id)
                  /\ Head(outbox[id]).type = "start_transfer"
                  /\ conns[id].role = "sender"
                  /\ ReadyToTransfer(room))
                    => /\ rooms'[k].transferring
                       /\ rooms'[k].owner = id
                       /\ \A r \in Live(room.receivers) :
                             /\ inbox'[r] # <<>>
                             /\ inbox'[r][Len(inbox'[r])].type = "transfer_start"]_vars

\* A second transfer between the same two connections has been accepted and
\* completed: the receiver tab, which was handed the transfer_complete of the
\* first transfer (its download button is shown) and the transfer_start of the
\* second, has the second transfer_complete waiting, the room is not
\* transferring, and the sender, whose two clicks were both accepted, has its
\* flag cleared by the second transfer_complete.
C15_Witness ==
    \E s, r \in ConnIds :
        /\ conns[s].role = "sender" /\ conns[r].role = "receiver"
        /\ conns[s].srv = "joined" /\ conns[r].srv = "joined"
        /\ conns[s].key = conns[r].key
        /\ ~rooms[conns[s].key].transferring
        /\ ReadyToTransfer(rooms[conns[s].key])
        /\ clicks[conns[s].client].sends = 2
        /\ client[conns[s].client].wsConnection = s
        /\ ~client[conns[s].client].transferInProgress
        /\ client[conns[s].client].readers = <<>>
        /\ inbox[s] = <<>> /\ outbox[s] = <<>>
        /\ client[conns[r].client].downloadBtn
        /\ client[conns[r].client].receivedFileName = <<conns[s].client, 2>>
        /\ client[conns[r].client].receivedFileBlob.bytes
              = <<<<conns[s].client, 2, 2>>>>
        /\ inbox[r] # <<>>
        /\ Head(inbox[r]).type = "transfer_complete"

C19_ReceiverConnectsAfterValidCheck ==
    [][\A n \in ConnIds :
          (/\ conns[n].readyState = "NONE"
           /\ conns'[n].readyState # "NONE"
           /\ conns'[n].role = "receiver")
             => LET r == client[conns'[n].client].check
                IN  /\ r.pending
                    /\ r.valid
                    /\ r.key = conns'[n].key]_vars

C18_SessionNotCutShort ==
    [][\A c \in Clients :
          (/\ p2p.tab[c].signalPollingInterval # NoTimer
           /\ p2p'.tab[c].signalPollingInterval = NoTimer)
             => \/ /\ p2p'.tab[c].peerConnection = "connected"
                   /\ p2p.tab[c].peerConnection # "connected"
                \/ p2p'.tab[c].peerConnection = "null"
                \/ \E i \in p2p.tab[c].intervals :
                      /\ i.id = p2p.tab[c].signalPollingInterval
                      /\ i.age + 1 >= SessionTicks]_vars

\* ----------------------------------------------------- fallback to the relay
\* C17: P2P is never a hard dependency.  There is no state in which a sender
\* has a file selected, a receiver that negotiated with it is waiting, the
\* direct transport has failed, and sendFile has ended with "WebSocket
\* connection not established" instead of carrying the file over the relay,
\* the tab having no open WebSocket.
C17_SendFileFallsBackToRelay ==
    \A s \in Clients, r \in Clients :
        ~ (/\ p2p.tab[s].view = "fileTransfer"
           /\ p2p.tab[s].currentRole = "sender"
           /\ p2p.tab[s].selectedFile # NoFile
           /\ p2p.tab[r].view = "fileTransfer"
           /\ p2p.tab[r].currentRole = "receiver"
           /\ p2p.tab[r].peer = s
           /\ p2p.tab[r].receivedFileBlob = NoBlob
           /\ p2p.tab[s].peerConnection = "failed"
           /\ ~isP2PConnected(p2p.tab[s])
           /\ p2p.tab[s].sending = NoSending
           /\ p2p.tab[s].notification = "WebSocket connection not established"
           /\ ~WsOpen(client[s], conns))

\* ------------------------------------------------------------ chunk sequence
\* C21: the relay sender numbers the chunk pairs it emits 0..total_chunks-1:
\* every chunk control message put on a connection carries a chunk_id smaller
\* than its total_chunks (so a file of size 0, whose total_chunks is 0, has no
\* chunk pair at all).  Stated for a sender that has been told its room is
\* ready to transfer.
C21_ChunkIdBelowTotal ==
    \A id \in ConnIds : \A j \in 1..Len(outbox[id]) :
        (/\ conns[id].role = "sender"
         /\ lastStatus[conns[id].client].ready_to_transfer
         /\ outbox[id][j].type = "chunk_meta")
            => outbox[id][j].chunk_id < outbox[id][j].total_chunks

\* ---------------------------------------------- chunks of a rejected start
\* C23: a sender tab puts chunks on its connection only for a transfer of its
\* own that is in progress: once the tab has been handed the error that
\* rejects its start_transfer, its FileReader loop puts no further chunk of
\* the rejected file on the connection.
C23_NoChunkAfterRejection ==
    [][\A c \in Clients, i \in 1..MaxReaders :
          (ReaderOnload(c, i) /\ outbox' # outbox)
             => client[c].transferInProgress]_vars

\* ------------------------------------------------ completion on the channel
\* C22: for every file size, once the sender has sent the metadata and all
\* chunks of a file and the data channel, open at both ends, has delivered
\* every message to the receiver's handler, the receiver has completed the
\* transfer: the blob is set and the pending per-transfer state is cleared.
C22_ReceiverCompletes ==
    \A s \in Clients, r \in Clients :
        (/\ p2p.tab[s].currentRole = "sender"
         /\ p2p.tab[s].notification = "File sent successfully"
         /\ p2p.tab[s].sending = NoSending
         /\ p2p.tab[s].peer = r
         /\ p2p.tab[r].peer = s
         /\ p2p.tab[s].dataChannel = "open"
         /\ p2p.tab[r].dataChannel = "open"
         /\ p2p.tab[s].buffer = <<>>
         /\ p2p.tab[r].channel = <<>>)
            => /\ p2p.tab[r].pendingP2PFileMetadata = NoPending
               /\ ~p2p.tab[r].receivedFileBlob.null

\* ------------------------------------------------ back-pressure on the channel
\* C29: no file chunk is enqueued on the data channel while the amount the
\* channel holds is over the threshold: a step of sendNextChunk that sends a
\* chunk and advances the chunk counter starts with bufferedAmount at most
\* BufferLimit.
C29_NoChunkOverThreshold ==
    [][\A c \in Clients, i \in 1..MaxP2PCalls :
          (/\ SendNextChunk(c, i)
           /\ Len(p2p'.tab[c].sending) = Len(p2p.tab[c].sending)
           /\ p2p'.tab[c].sending[i].next = p2p.tab[c].sending[i].next + 1)
             => bufferedAmount(p2p.tab[c].buffer) <= BufferLimit]_vars

\* ------------------------------------------------------- signaling exchange
\* The remote candidates tab c has added to its peer connection or passed to
\* a call still in progress
AppliedOrPending(t) == t.applied \cup UNION {t.ops[i].cands : i \in 1..Len(t.ops)}

\* C24: every candidate the receiver has appended to the record is applied by
\* the sender while the direct transport is not yet established: when the
\* sender has been notified of a change of its record, every receiver
\* candidate in the record is added to its peer connection or is about to be.
C24_SenderAppliesCandidates ==
    [][\A s \in Clients, code \in Codes :
          (/\ HandleStorageEvent(s, code)
           /\ p2p.tab[s].currentRole = "sender"
           /\ p2p.tab[s].connectionCode = code
           /\ p2p.tab[s].peerConnection = "new")
             => Range(p2p.store[code].receiverCandidates)
                    \subseteq AppliedOrPending(p2p'.tab[s])]_vars

\* C25: every candidate the sender has appended to the record is applied by
\* the receiver while it is polling and the direct transport is not yet
\* established: when a polling period of the receiver has passed, every
\* sender candidate in the record of its code is added to its peer
\* connection or is about to be.
C25_ReceiverAppliesCandidates ==
    [][\A r \in Clients :
          (/\ Tick(r)
           /\ p2p.tab[r].currentRole = "receiver"
           /\ p2p.tab[r].peerConnection = "new"
           /\ p2p.tab[r].lastReceivedCode # NoCode
           /\ \E i \in p2p.tab[r].intervals :
                 /\ i.id = p2p.tab[r].signalPollingInterval
                 /\ i.code = p2p.tab[r].lastReceivedCode)
             => Range(p2p.store[p2p.tab[r].lastReceivedCode].candidates)
                    \subseteq AppliedOrPending(p2p'.tab[r])]_vars

\* C27: within one exchange the receiver processes the offer at most once and
\* the sender applies the answer at most once: while a call that sets a
\* description is in progress in a tab, no storage notification and no
\* polling tick starts another call that sets the same description found
\* under the same code.
C27_ProcessedOnce ==
    \A c \in Clients : \A i, j \in 1..Len(p2p.tab[c].ops) :
        (/\ i < j
         /\ p2p.tab[c].ops[j].poll = NoCode
         /\ p2p.tab[c].ops[i].kind = p2p.tab[c].ops[j].kind
         /\ p2p.tab[c].ops[i].from = p2p.tab[c].ops[j].from) =>
            p2p.tab[c].ops[i].code # p2p.tab[c].ops[j].code

\* C28: the exchange follows the order of the two roles; in particular no
\* record holds an answer without holding an offer.
C28_NoAnswerBeforeOffer ==
    \A code \in Codes :
        p2p.store[code].answer # NoPeer => p2p.store[code].offer # NoPeer

\* C30: the record of a connection code is discarded once the direct
\* transport is connected: a sender whose peer connection is connected has
\* no record under its code in the store.
C30_RecordDiscarded ==
    \A s \in Clients :
        (/\ p2p.tab[s].currentRole = "sender"
         /\ p2p.tab[s].connectionCode # NoCode
         /\ p2p.tab[s].peerConnection = "connected")
            => p2p.store[p2p.tab[s].connectionCode] = NoSignal

\* ------------------------------------------------------ the shared record
\* q is an initial part of r
IsPrefix(q, r) == Len(q) <= Len(r) /\ SubSeq(r, 1, Len(q)) = q

\* C26: the updates of the two roles never corrupt the record: in every step
\* that changes a record of the store, a published offer and a published
\* answer stay in it and both candidate sequences only grow.
C26_RecordPreserved ==
    [][\A code \in Codes :
          (p2p.store[code] # NoSignal /\ p2p'.store[code] # NoSignal)
             => /\ p2p.store[code].offer # NoPeer
                     => p2p'.store[code].offer = p2p.store[code].offer
                /\ p2p.store[code].answer # NoPeer
                     => p2p'.store[code].answer = p2p.store[code].answer
                /\ IsPrefix(p2p.store[code].candidates,
                            p2p'.store[code].candidates)
                /\ IsPrefix(p2p.store[code].receiverCandidates,
                            p2p'.store[code].receiverCandidates)]_vars

\* One relay session in which files of different sizes are sent encrypted and
\* the receiver decrypts them; the events of a connection are handled in the
\* order they were sent and the server attaches the key material once.
NextDecrypt ==
    \/ \E c \in Creators :
           Cardinality(issued) < MaxRooms /\ CreateRoom(c, MaxCapacity, FALSE)
    \/ \E c \in Clients : ContinueAsSender(c)
    \/ \E c \in Joiners : ShowJoinRoomOptions(c)
    \/ \E c \in Clients, k \in Keys : JoinRoomWithKey(c, k, TRUE)
    \/ \E c \in Clients : JoinRoomContinue(c)
    \/ \E c \in Clients, f \in 1..MaxFileSize : SelectFile(c, f)
    \/ \E c \in Clients, m \in Methods \ {"none"} : SendFile(c, m)
    \/ \E c \in Clients, i \in 1..MaxReaders : ReaderOnload(c, i)
    \/ \E c \in Clients, i \in 1..MaxSends, ok \in BOOLEAN :
           ProcessEncryptedFileStep(c, i, ok)
    \/ \E id \in ConnIds : ClientReceive(id)
    \/ \E id \in ConnIds : ServerJoin(id)
    \/ \E id \in ConnIds : ServerReceiveOnce(id)

SpecDecrypt == Init /\ [][NextDecrypt]_vars

\* C31: a decryption result is stored only over the transfer it was computed
\* for: in a step in which a pending processEncryptedFile call stores its
\* result, the stored blob is still the one the call read, or at least the
\* result consists of bytes of the file whose name is stored; the result of an
\* earlier transfer is never written over the state of a transfer that has
\* started since.
C31_LateResultNotStored ==
    [][\A c \in Clients :
         LET s == client[c]
         IN  \A i \in 1..Len(s.jobs) :
               ( /\ s.jobs[i].stage = "decrypt"
                 /\ client'[c].jobs = RemoveAt(s.jobs, i)
                 /\ client'[c].receivedFileBlob = Blob(Decrypted(s.jobs[i].fileData))
                 /\ client'[c].receivedFileBlob # s.receivedFileBlob )
               => \/ s.receivedFileBlob = Blob(s.jobs[i].fileData)
                  \/ \A j \in 1..Len(s.jobs[i].fileData) :
                        FileOf(s.jobs[i].fileData[j]) = s.receivedFileName]_vars

\* Key material in hand: the metadata object holds what its method needs
HasKeyMaterial(m) ==
    /\ ~m.null
    /\ \/ m.method = "aes-256-gcm" /\ m.aes_key # 0 /\ m.iv # 0 /\ m.tag # 0
       \/ m.method = "chacha20-poly1305" /\ m.chacha_key # 0 /\ m.nonce # 0

\* Tab c handles the transfer_progress message at the head of its connection
HandlesProgress(c) ==
    \E id \in ConnIds :
        /\ conns[id].client = c
        /\ inbox[id] # <<>>
        /\ Head(inbox[id]).type = "transfer_progress"
        /\ inbox'[id] = Tail(inbox[id])

\* C32: key material that a transfer_progress message has delivered is still
\* held when transfer_complete is handled: a receiver that holds key material
\* still holds it after handling a further transfer_progress message.
C32_KeyMaterialKept ==
    [][\A c \in Clients :
         ( /\ client[c].currentRole = "receiver"
           /\ HasKeyMaterial(client[c].encryptionMetadata)
           /\ HandlesProgress(c) )
         => HasKeyMaterial(client'[c].encryptionMetadata)]_vars

\* Tab c handles the transfer_start message at the head of its connection
HandlesTransferStart(c) ==
    \E id \in ConnIds :
        /\ conns[id].client = c
        /\ inbox[id] # <<>>
        /\ Head(inbox[id]).type = "transfer_start"
        /\ inbox'[id] = Tail(inbox[id])

\* Tab c handles the file_metadata message at the head of its data channel
HandlesFileMetadata(c) ==
    /\ p2p.tab[c].channel # <<>>
    /\ Head(p2p.tab[c].channel).type = "file_metadata"
    /\ p2p'.tab[c].channel = Tail(p2p.tab[c].channel)

\* C33: every transfer start resets the receiver's per-transfer state: after
\* a receiver has handled a relay transfer_start its received blob and its
\* encryption metadata are null, and after a tab has handled a P2P
\* file_metadata its chunk buffer is empty and its received blob is null.
C33_ResetOnTransferStart ==
    [][\A c \in Clients :
         /\ (HandlesTransferStart(c) /\ client[c].currentRole = "receiver")
               => /\ client'[c].receivedFileBlob = NoBlob
                  /\ client'[c].encryptionMetadata = NoMeta
         /\ HandlesFileMetadata(c)
               => /\ p2p'.tab[c].pendingP2PFileMetadata.chunks = <<>>
                  /\ p2p'.tab[c].receivedFileBlob = NoBlob]_vars

\* C34: a sender tab in P2P mode has at most one file transfer in flight:
\* no sendFile call is started on the data channel while an earlier call of
\* the tab has sent its metadata and still has chunks to send.
C34_NoSendDuringTransfer ==
    [][\A c \in Clients :
         Len(p2p'.tab[c].sending) > Len(p2p.tab[c].sending)
            => \A i \in 1..Len(p2p.tab[c].sending) :
                  ~ (/\ p2p.tab[c].sending[i].stage = "chunks"
                     /\ p2p.tab[c].sending[i].next < p2p.tab[c].sending[i].total)]_vars

\* The timers and events of the file transfer are served: a FileReader that
\* has been started loads, a scheduled sendNextChunk runs, the data channel
\* transmits what it holds and the message handler is called.
P2PSendFairness ==
    \A c \in Clients :
        /\ WF_vars(\E i \in 1..MaxP2PCalls : ReaderOnloadP2P(c, i))
        /\ WF_vars(\E i \in 1..MaxP2PCalls : SendNextChunk(c, i))
        /\ WF_vars(Transmit(c))
        /\ WF_vars(HandleP2PMessage(c))

SpecP2PSendFair == SpecP2PSend /\ P2PSendFairness

\* C35: the chunk loop of the P2P sender terminates: a sendFile call that is
\* running eventually ends, by sending all its chunks and re-enabling the send
\* button or by giving up with an error.
C35_ChunkLoopTerminates ==
    \A c \in Clients :
        (p2p.tab[c].sending # NoSending) ~> (p2p.tab[c].sending = NoSending)

\* C36: the percentage shown after k of total_chunks chunks is
\* round((k / total_chunks) * 100): while the one running sendFile call of a
\* P2P sender has sent k >= 1 chunks, and while a P2P receiver has buffered
\* k >= 1 chunks of the announced total, the progress bar of the tab shows
\* that value.
C36_ProgressIsRoundedShare ==
    \A c \in Clients :
        LET t  == p2p.tab[c]
            pm == t.pendingP2PFileMetadata
        IN  /\ ( /\ Len(t.sending) = 1
                 /\ t.sending[1].stage = "chunks"
                 /\ t.sending[1].next >= 1 )
               => t.progressBar = RoundPercent(t.sending[1].next, t.sending[1].total)
            /\ ( /\ ~pm.null
                 /\ pm.totalChunks > 0
                 /\ Len(pm.chunks) >= 1 )
               => t.progressBar = RoundPercent(Len(pm.chunks), pm.totalChunks)

\* C37: decryptFileWithAES tries the two tag layouts in a fixed order: after
\* an AES-GCM payload has been opened, the call succeeded exactly when the key
\* could be imported and the data with the tag appended, or else the data
\* alone, decrypts; and what it returned is the plaintext of the first of the
\* two attempts that succeeds.
C37_TwoLayoutsInOrder ==
    (aead.phase = "opened" /\ aead.method = "aes-256-gcm") =>
        LET first  == AeadOpen("aes-256-gcm", aead.key, aead.iv,
                               aead.data \o aead.tag)
            second == AeadOpen("aes-256-gcm", aead.key, aead.iv, aead.data)
        IN  /\ aead.ok <=> (importKey(aead.key) /\ (first.ok \/ second.ok))
            /\ (aead.ok /\ aead.tampered # "plaintext")
                  => aead.out = IF first.ok THEN first.data ELSE second.data

\* An AES-GCM payload that travelled with its tag appended has been opened by
\* the second attempt, the first having failed.
C37_Witness ==
    /\ aead.phase = "opened"
    /\ aead.method = "aes-256-gcm"
    /\ aead.ok
    /\ aead.out = aead.plain
    /\ aead.plain # <<>>
    /\ ~AeadOpen("aes-256-gcm", aead.key, aead.iv, aead.data \o aead.tag).ok

\* encryption.js processEncryptedFile: a parameter of the method is missing
\* (the method defaults to AES-256-GCM)
KeyMaterialMissing(m) ==
    \/ m.null
    \/ IF m.method = "chacha20-poly1305"
       THEN m.chacha_key = 0 \/ m.nonce = 0
       ELSE m.aes_key = 0 \/ m.iv = 0 \/ m.tag = 0

\* C38: a decryption failure leaves the received data untouched: a step of
\* processEncryptedFile that finds key material missing ends the call without
\* attempting a decryption and without changing the stored blob; a step in
\* which the decryption or the server-side call fails does not change the
\* stored blob; and a step of processEncryptedFile changes the stored blob
\* only to the result of a decryption that succeeded.
C38_FailureLeavesBlob ==
    [][\A c \in Clients, i \in 1..MaxSends, ok \in BOOLEAN :
         ProcessEncryptedFileStep(c, i, ok) =>
            LET s   == client[c]
                job == s.jobs[i]
            IN  /\ (job.stage = "read" /\ KeyMaterialMissing(s.encryptionMetadata))
                      => /\ client'[c].receivedFileBlob = s.receivedFileBlob
                         /\ client'[c].jobs = RemoveAt(s.jobs, i)
                /\ (job.stage = "decrypt" /\ ~ok)
                      => client'[c].receivedFileBlob = s.receivedFileBlob
                /\ client'[c].receivedFileBlob # s.receivedFileBlob
                      => /\ job.stage = "decrypt"
                         /\ ok
                         /\ client'[c].receivedFileBlob =
                                Blob(Decrypted(job.fileData))]_vars

\* A receiver whose decryption was attempted with complete key material and
\* failed: no call is pending, the download button is shown and the stored
\* blob is the received bytes, not a decryption result.
C38_Witness ==
    \E c \in Clients :
        LET s == client[c]
        IN  /\ s.currentRole = "receiver"
            /\ ~KeyMaterialMissing(s.encryptionMetadata)
            /\ s.jobs = <<>>
            /\ s.downloadBtn
            /\ ~s.receivedFileBlob.null
            /\ s.receivedFileBlob.bytes # <<>>
            /\ \A j \in 1..Len(s.receivedFileBlob.bytes) :
                  Len(s.receivedFileBlob.bytes[j]) = 3

\* C39: the delayed disconnect that follows a 'maximum capacity' error closes
\* only the connection the error came in on: a connection that the timer
\* callback closes is one the server has refused for capacity.
C39_DelayedDisconnectOwnConnection ==
    [][\A c \in Clients :
         client'[c].capacityTimers < client[c].capacityTimers
            => \A id \in ConnIds :
                  ( /\ conns[id].client = c
                    /\ IsOpenish(conns, id)
                    /\ ~IsOpenish(conns', id) )
                  => conns[id].srv = "full"]_vars
\* C40: a step of leaveRoom (the file transfer card gives way to the initial
\* options) leaves the tab with role, selected file, received name and blob
\* at their initial values, the P2P connection and its channel closed,
\* polling stopped, and the signaling record of a sender removed from the
\* store.
C40_LeftIsInitial ==
    [][\A c \in Clients :
          LET t == p2p.tab[c]
              u == p2p'.tab[c]
          IN  (t.view = "fileTransfer" /\ u.view = "initialOptions") =>
                  /\ u.currentRole = "null"
                  /\ u.selectedFile = NoFile
                  /\ u.receivedFileName = NoName
                  /\ u.receivedFileBlob = NoBlob
                  /\ u.peerConnection = "null"
                  /\ u.dataChannel = "null"
                  /\ u.signalPollingInterval = NoTimer
                  /\ u.intervals = {}
                  /\ (t.currentRole = "sender" /\ t.connectionCode # NoCode
                          => p2p'.store[t.connectionCode] = NoSignal)]_vars

====
